---- MODULE Spec2Model ----
(***************************************************************************)
(* A model of the package manager of src/src: the dependency resolver      *)
(* (actions.rs resolve_deps, consolidate_deps), the build pipeline         *)
(* (lib.rs build), the builder and installer (actions.rs build_all,        *)
(* install_all) and the remover (lib.rs remove), over a small file system. *)
(***************************************************************************)
EXTENDS Integers, Sequences, FiniteSets, TLC

(***************************************************************************)
(* Bounds of the model.                                                    *)
(***************************************************************************)
\* Largest number of deps/mkdeps edges in the recipe store of SpecResolve.
MaxEdges == 3
\* Largest number of commands of one session of Spec.
MaxCmds == 2

(***************************************************************************)
(* Names, versions and paths.  A path is a sequence of segments; a segment *)
(* is a pair <<name, version>> that stands for the text "/name" when the   *)
(* version is empty and for "/name@version" otherwise.  File contents are  *)
(* sequences of tokens: the segments of a path, NL for "\n", and Arrow     *)
(* followed by <<P, V>> for the text "-> P@V" of a provides stub.          *)
(***************************************************************************)
Names == {"a", "b", "c"}
NoRecipe == "z"
Versions == {"1", "2"}

Seg(s) == <<s, "">>
MF(p, v) == <<p, v>>
NL == <<"\n", "">>
Arrow == <<"->", "">>

VarCache == <<Seg("var"), Seg("cache")>>
ArcDir == VarCache \o <<Seg("arc"), Seg("installed")>>
MossDir == VarCache \o <<Seg("moss"), Seg("installed")>>

\* Rank of a segment name in byte order, for the sorted directory walk of glob.
SegOrder == <<"a", "arc", "b", "bin", "c", "cache", "installed", "moss", "var", "x", "y", "z">>
SegRank(s) == CHOOSE i \in 1..Len(SegOrder) : SegOrder[i] = s[1]
VerRank(s) == IF s[2] = "" THEN 0 ELSE IF s[2] = "1" THEN 1 ELSE 2

SegLess(s, t) ==
    \/ SegRank(s) < SegRank(t)
    \/ SegRank(s) = SegRank(t) /\ VerRank(s) < VerRank(t)

\* p comes before q in a depth-first walk with sorted directory entries.
RECURSIVE PathLess(_, _)
PathLess(p, q) ==
    IF p = <<>> THEN q # <<>>
    ELSE IF q = <<>> THEN FALSE
    ELSE IF Head(p) = Head(q) THEN PathLess(Tail(p), Tail(q))
    ELSE SegLess(Head(p), Head(q))

\* The paths of a set in walk order.
RECURSIVE SortPaths(_)
SortPaths(S) ==
    IF S = {} THEN <<>>
    ELSE LET m == CHOOSE p \in S : \A q \in S \ {p} : PathLess(p, q)
         IN <<m>> \o SortPaths(S \ {m})

IsPrefix(p, q) == Len(p) <= Len(q) /\ SubSeq(q, 1, Len(p)) = p
Parent(p) == SubSeq(p, 1, Len(p) - 1)
Prefixes(p) == {SubSeq(p, 1, i) : i \in 1..Len(p)}

(***************************************************************************)
(* File trees.  A tree maps each existing path to a node [kind, data]:     *)
(* kind is "dir", "file" or "link"; data is the content of a file or the   *)
(* target of a link.                                                       *)
(***************************************************************************)
Dir == [kind |-> "dir", data |-> <<>>]
File(content) == [kind |-> "file", data |-> content]
Link(target) == [kind |-> "link", data |-> target]

EmptyTree == [p \in {} |-> Dir]
Put(fs, p, node) == [q \in DOMAIN fs \cup {p} |-> IF q = p THEN node ELSE fs[q]]
Del(fs, S) == [q \in DOMAIN fs \ S |-> fs[q]]

\* The place a path names once the symbolic links among its proper
\* prefixes are followed.
RECURSIVE Canon(_, _)
Canon(fs, p) ==
    LET links == {i \in 1..(Len(p) - 1) :
                     /\ SubSeq(p, 1, i) \in DOMAIN fs
                     /\ fs[SubSeq(p, 1, i)].kind = "link"}
    IN IF links = {} THEN p
       ELSE LET i == CHOOSE j \in links : \A k \in links : j <= k
            IN Canon(fs, fs[SubSeq(p, 1, i)].data \o SubSeq(p, i + 1, Len(p)))

Exists(fs, p) == Canon(fs, p) \in DOMAIN fs
Node(fs, p) == fs[Canon(fs, p)]

\* mkdir -p
RECURSIVE MkdirP(_, _)
MkdirP(fs, p) ==
    IF p = <<>> \/ Exists(fs, p) THEN fs
    ELSE LET up == MkdirP(fs, Parent(p))
         IN Put(up, Canon(up, p), Dir)

(***************************************************************************)
(* State.                                                                  *)
(***************************************************************************)
VARIABLES
    recipes,    \* the recipe store: name -> parsed package.toml
    live,       \* the live file system (the tree under /)
    pack_toml,  \* the explicit packages of the command, as summary parsed them
    frames,     \* the call stack of resolve_deps, innermost call last
    visiting,   \* resolve_deps' visiting set (the current branch)
    result,     \* what the outermost resolve_deps call returned
    recorded,   \* history: every (name, depth, list) resolve_deps recorded
    cmd,        \* the command that runs or ran last: [op, yes]
    session,    \* history: the commands started, each with the live tree it found
    pc,         \* where the command is: "idle", "summary", "verify", "steps", "remove"
    plan,       \* the calls the command still has to make, next first
    elevation,  \* "root", or what a user has to become root: "sudo", "none"
    bin,        \* <cache>/bin: name@version -> the tree in that tarball
    tmp,        \* <cache>/tmp: name -> the staging tree left there
    scratch,    \* <cache>/build: name -> the dest tree left there
    status,     \* how the last command ended
    ncmds,      \* commands started so far
    hist,       \* history: what the command has done, in order
    prompts,    \* history: the conflict prompts of the last install_all call
    shared,     \* history: the paths the last remove found tracked by others
    net,        \* the servers: url -> the response to a request for it
    dl_dir,     \* <cache>/dl: file name -> content
    call,       \* the download_one call that runs or ran last
    traffic,    \* history: the requests and copies of that call
    past,       \* history: the download_one calls that ended before it
    verdict,    \* what verify_checksums returned for the last call
    child,      \* the build script of a verbose build: what it has to write, and whether it ran
    pipes,      \* the bytes in the pipes of its standard output and standard error
    threads,    \* the two writer threads: where each is in tee, and its buf
    log_file,   \* log.txt: its bytes, and the offset of every open file description
    stdout,     \* the bytes written to the standard output of the program
    step,       \* where build_all is in the verbose branch, and what it returned
    cfg         \* the configuration file: [strip, su_cmd]

\* The state of download_one and verify_checksums.
dvars == <<net, dl_dir, call, traffic, past, verdict>>
\* The state of the verbose branch of build_all and of tee.
tvars == <<child, pipes, threads, log_file, stdout, step>>
pvars == <<cmd, session, pc, plan, elevation, bin, tmp, scratch, status, ncmds, hist, prompts, shared>>
vars == <<recipes, live, pack_toml, frames, visiting, result, recorded,
          cmd, session, pc, plan, elevation, bin, tmp, scratch, status, ncmds, hist, prompts, shared,
          net, dl_dir, call, traffic, past, verdict,
          child, pipes, threads, log_file, stdout, step, cfg>>

(***************************************************************************)
(* actions.rs: is_installed, parse_package.                                *)
(***************************************************************************)
\* glob matching of a version pattern: "*" matches every version.
GlobMatch(pattern, v) == pattern = "*" \/ pattern = v

is_installed(fs, pack, version) ==
    \E v \in Versions :
        GlobMatch(version, v) /\ Exists(fs, ArcDir \o <<MF(pack, v)>>)

\* parse_package succeeds on a list of names iff each has a package.toml.
CanParse(packs) == \A k \in 1..Len(packs) : packs[k] \in DOMAIN recipes

(***************************************************************************)
(* actions.rs: consolidate_deps and the tail of resolve_deps.              *)
(***************************************************************************)
Entry(n, d) == [name |-> n, depth |-> d]
NamesOf(list) == {list[k].name : k \in 1..Len(list)}

\* A faulty HighestCopy: the first copy met is kept whatever its depth.
HighestCopyFirst(pack, input) == pack

\* The copy consolidate_deps keeps for entry pack: scanning the input, it
\* is replaced by each later-scanned copy of a strictly greater depth.
RECURSIVE HighestCopy(_, _)
HighestCopy(pack, input) ==
    IF input = <<>> THEN pack
    ELSE IF Head(input).name = pack.name /\ Head(input).depth > pack.depth
         THEN HighestCopy(Head(input), Tail(input))
         ELSE HighestCopy(pack, Tail(input))

RECURSIVE ConsolidateFrom(_, _, _)
ConsolidateFrom(rest, input, out_deps) ==
    IF rest = <<>> THEN out_deps
    ELSE IF Head(rest).name \in NamesOf(out_deps)
         THEN ConsolidateFrom(Tail(rest), input, out_deps)
         ELSE ConsolidateFrom(Tail(rest), input,
                              Append(out_deps, HighestCopy(Head(rest), input)))

\* A faulty consolidate_deps: every copy is kept.
ConsolidateKeepsAll(input) == input

consolidate_deps(input) == ConsolidateFrom(input, input, <<>>)

\* Insert e into a list sorted by descending depth, after every entry of
\* a depth greater than or equal to its own (the sort is stable).
RECURSIVE InsertByDepth(_, _)
InsertByDepth(e, sorted) ==
    IF sorted = <<>> THEN <<e>>
    ELSE IF Head(sorted).depth >= e.depth
         THEN <<Head(sorted)>> \o InsertByDepth(e, Tail(sorted))
         ELSE <<e>> \o sorted

RECURSIVE SortByDepthFrom(_, _)
SortByDepthFrom(list, sorted) ==
    IF list = <<>> THEN sorted
    ELSE SortByDepthFrom(Tail(list), InsertByDepth(Head(list), sorted))

\* A faulty SortByDepth: the list is left in the order it was collected.
SortByDepthNone(list) == list

\* list.sort_by(|a, b| a.depth.cmp(&b.depth).reverse())
SortByDepth(list) == SortByDepthFrom(list, <<>>)

\* A faulty DropMkdeps: nothing is removed from deps.
DropMkdepsNone(proc_deps, out_mkdeps) == proc_deps

\* Remove packages from deps if they are in mkdeps.
DropMkdeps(proc_deps, out_mkdeps) ==
    SelectSeq(proc_deps, LAMBDA dep : dep.name \notin NamesOf(out_mkdeps))

\* What a call returns from its raw lists.
OutLists(raw_deps, raw_mkdeps) ==
    LET proc_deps == consolidate_deps(raw_deps)
        out_mkdeps == consolidate_deps(raw_mkdeps)
    IN [deps |-> SortByDepth(DropMkdeps(proc_deps, out_mkdeps)),
        mkdeps |-> SortByDepth(out_mkdeps)]

(***************************************************************************)
(* actions.rs: resolve_deps, one step per edge and one per return.  A      *)
(* frame is one call: the packages it iterates (packs, the i-th is the     *)
(* current one), the loop it is in (kind) with the keys of that map not    *)
(* yet iterated (todo: a HashMap iterates in no fixed order), its raw      *)
(* lists, and the dependency whose recursive call is running (sub).        *)
(***************************************************************************)
EdgeMap(pack, kind) ==
    IF kind = "deps" THEN recipes[pack].deps ELSE recipes[pack].mkdeps

\* Move a frame to its next pending edge: from an exhausted deps loop to
\* the mkdeps loop, from an exhausted mkdeps loop to the next package.
RECURSIVE Advance(_)
Advance(f) ==
    IF f.i > Len(f.packs) \/ f.todo # {} THEN f
    ELSE IF f.kind = "deps"
         THEN Advance([f EXCEPT !.kind = "mkdeps",
                                !.todo = DOMAIN EdgeMap(f.packs[f.i], "mkdeps")])
         ELSE IF f.i < Len(f.packs)
              THEN Advance([f EXCEPT !.i = f.i + 1, !.kind = "deps",
                                     !.todo = DOMAIN EdgeMap(f.packs[f.i + 1], "deps")])
              ELSE [f EXCEPT !.i = f.i + 1]

NewFrame(packs, depth) ==
    Advance([packs |-> packs, depth |-> depth, i |-> 1, kind |-> "deps",
             todo |-> DOMAIN EdgeMap(packs[1], "deps"),
             raw_deps |-> <<>>, raw_mkdeps |-> <<>>, sub |-> ""])

Top == frames[Len(frames)]
Returning(f) == f.i > Len(f.packs)

\* Whether the edge being taken lies below an mkdeps edge: everything a
\* call made from an mkdeps loop returns ends in the caller's raw_mkdeps.
UnderMkdeps == \E k \in 1..Len(frames) : frames[k].kind = "mkdeps"

\* The outermost call, as summary makes it: resolve_deps(&pack_toml, 1, {}).
StartResolve(packs) ==
    /\ pack_toml' = packs
    /\ frames' = <<NewFrame(packs, 1)>>
    /\ visiting' = {}
    /\ result' = [status |-> "running", deps |-> <<>>, mkdeps |-> <<>>]
    /\ recorded' = {}

\* A faulty EdgeOutcome: a dependency found in visiting is skipped
\* (continue) where the code bails.
EdgeOutcomeSkipsCycle(name, ver_req) ==
    IF name \in visiting \/ is_installed(live, name, ver_req) THEN "skip"
    ELSE IF name \notin DOMAIN recipes THEN "unresolved"
    ELSE "recurse"

\* What one loop iteration does with the edge to name (lines 310-322 and
\* 339-352): the visiting check comes first, then is_installed, then
\* parse_package.
EdgeOutcome(name, ver_req) ==
    IF name \in visiting THEN "circular"
    ELSE IF is_installed(live, name, ver_req) THEN "skip"
    ELSE IF ~CanParse(<<name>>) THEN "unresolved"
    ELSE "recurse"

\* One iteration of a deps or mkdeps loop, up to the recursive call.
ResolveEdge ==
    /\ frames # <<>>
    /\ ~Returning(Top)
    /\ Top.sub = ""
    /\ \E name \in Top.todo :
        LET outcome == EdgeOutcome(name, EdgeMap(Top.packs[Top.i], Top.kind)[name]) IN
        IF outcome = "skip"
        THEN /\ frames' = [frames EXCEPT ![Len(frames)] =
                              Advance([Top EXCEPT !.todo = Top.todo \ {name}])]
             /\ UNCHANGED <<visiting, result, recorded>>
        ELSE IF outcome = "recurse"
        THEN /\ frames' = Append([frames EXCEPT ![Len(frames)].sub = name],
                                 NewFrame(<<name>>, Top.depth + 1))
             /\ visiting' = visiting \cup {name}
             /\ recorded' = recorded \cup
                    {[name |-> name, depth |-> Top.depth, kind |-> Top.kind,
                      mk |-> UnderMkdeps]}
             /\ UNCHANGED result
        ELSE /\ frames' = <<>>
             /\ result' = [status |-> outcome, deps |-> <<>>, mkdeps |-> <<>>]
             /\ UNCHANGED <<visiting, recorded>>
    /\ UNCHANGED <<recipes, cfg, dvars, tvars, live, pack_toml>>
    /\ UNCHANGED pvars

\* The caller's frame once the call for its dependency f.sub has returned out.
AfterCall(f, out) ==
    LET dep == Entry(f.sub, f.depth)
        g == IF f.kind = "deps"
             THEN [f EXCEPT !.raw_deps = (f.raw_deps \o <<dep>>) \o out.deps,
                            !.raw_mkdeps = f.raw_mkdeps \o out.mkdeps]
             ELSE [f EXCEPT !.raw_mkdeps =
                                ((f.raw_mkdeps \o <<dep>>) \o out.deps) \o out.mkdeps]
    IN Advance([g EXCEPT !.todo = f.todo \ {f.sub}, !.sub = ""])

\* The end of a call: consolidate, drop, sort, and hand the lists to the
\* caller, which removes the dependency from visiting and appends them.
ResolveReturn ==
    /\ frames # <<>>
    /\ Returning(Top)
    /\ LET out == OutLists(Top.raw_deps, Top.raw_mkdeps)
           n == Len(frames)
       IN IF n = 1
          THEN /\ frames' = <<>>
               /\ result' = [status |-> "ok", deps |-> out.deps, mkdeps |-> out.mkdeps]
               /\ UNCHANGED visiting
          ELSE /\ frames' = [SubSeq(frames, 1, n - 1) EXCEPT
                                ![n - 1] = AfterCall(frames[n - 1], out)]
               /\ visiting' = visiting \ {frames[n - 1].sub}
               /\ UNCHANGED result
    /\ UNCHANGED <<recipes, cfg, dvars, tvars, live, pack_toml, recorded>>
    /\ UNCHANGED pvars

(***************************************************************************)
(* Text of manifests: str::lines, str::contains and str::replace on token  *)
(* sequences.  A path given as needle starts with "/", so it matches       *)
(* inside a text exactly where its tokens do.                              *)
(***************************************************************************)
RECURSIVE TextOf(_)
TextOf(paths) ==
    IF paths = <<>> THEN <<>>
    ELSE (Head(paths) \o <<NL>>) \o TextOf(Tail(paths))

RECURSIVE LinesFrom(_, _)
LinesFrom(content, cur) ==
    IF content = <<>> THEN (IF cur = <<>> THEN <<>> ELSE <<cur>>)
    ELSE IF Head(content) = NL
         THEN <<cur>> \o LinesFrom(Tail(content), <<>>)
         ELSE LinesFrom(Tail(content), Append(cur, Head(content)))

Lines(content) == LinesFrom(content, <<>>)

StartsWith(content, needle) ==
    Len(needle) <= Len(content) /\ SubSeq(content, 1, Len(needle)) = needle

Contains(content, needle) ==
    \E i \in 1..Len(content) :
        StartsWith(SubSeq(content, i, Len(content)), needle)

\* content.replace(needle, ""): every occurrence, left to right.
RECURSIVE Replace(_, _)
Replace(content, needle) ==
    IF content = <<>> THEN <<>>
    ELSE IF StartsWith(content, needle)
         THEN Replace(SubSeq(content, Len(needle) + 1, Len(content)), needle)
         ELSE <<Head(content)>> \o Replace(Tail(content), needle)

(***************************************************************************)
(* File operations of the external commands the program runs.              *)
(***************************************************************************)
Children(fs, p) == {q \in DOMAIN fs : Len(q) = Len(p) + 1 /\ IsPrefix(p, q)}
IsDir(fs, p) == Exists(fs, p) /\ Node(fs, p).kind = "dir"

\* fs::metadata(p): the node p names, a link at p itself followed once.
Stat(fs, p) ==
    IF Node(fs, p).kind = "link" THEN Node(fs, Node(fs, p).data) ELSE Node(fs, p)
StatOk(fs, p) ==
    /\ Exists(fs, p)
    /\ Node(fs, p).kind = "link" => Exists(fs, Node(fs, p).data)

\* rmdir p: removes an empty directory, fails on anything else.
Rmdir(fs, p) ==
    IF IsDir(fs, p) /\ Children(fs, Canon(fs, p)) = {}
    THEN Del(fs, {Canon(fs, p)}) ELSE fs

\* rm p: removes a file or a link, fails on a directory or a missing path.
Rm(fs, p) ==
    IF Exists(fs, p) /\ Node(fs, p).kind # "dir"
    THEN Del(fs, {Canon(fs, p)}) ELSE fs

\* cp -d src p, for a source that is no directory: fails when the parent
\* of p is missing or p is a directory.
CpD(fs, p, node) ==
    IF p = <<>> \/ ~IsDir(fs, Parent(Canon(fs, p))) \/ IsDir(fs, p) THEN fs
    ELSE Put(fs, Canon(fs, p), node)

\* tar xf: the entries of tree written over those of base.
Extract(base, tree) ==
    [p \in DOMAIN base \cup DOMAIN tree |-> IF p \in DOMAIN tree THEN tree[p] ELSE base[p]]

RECURSIVE MkdirAll(_, _)
MkdirAll(fs, dirs) ==
    IF dirs = <<>> THEN fs ELSE MkdirAll(MkdirP(fs, Head(dirs)), Tail(dirs))

RECURSIVE CpAll(_, _, _)
CpAll(fs, tree, files) ==
    IF files = <<>> THEN fs
    ELSE CpAll(CpD(fs, Head(files), tree[Head(files)]), tree, Tail(files))

\* The two find passes of install_all over a staging tree: mkdir -p for
\* every directory, then cp -d for everything else.
Place(fs, tree) ==
    LET dirs == SortPaths({p \in DOMAIN tree : tree[p].kind = "dir"})
        files == SortPaths({p \in DOMAIN tree : tree[p].kind # "dir"})
    IN CpAll(MkdirAll(fs, dirs), tree, files)

(***************************************************************************)
(* actions.rs: is_tracked.  read_dir yields the manifests in no fixed      *)
(* order, so every manifest holding the line may be the one returned.      *)
(***************************************************************************)
ManifestsIn(fs, dir) ==
    {p[Len(p)] : p \in {q \in Children(fs, Canon(fs, dir)) : fs[q].kind = "file"}}
ManifestText(fs, dir, n) == Node(fs, dir \o <<n>>).data

\* The manifests is_tracked may return for file (none: Ok(None)).
Tracked(fs, file) ==
    {n \in ManifestsIn(fs, ArcDir) :
        Contains(ManifestText(fs, ArcDir, n), file \o <<NL>>)}
\* fs::read_dir("/var/cache/arc/installed/") fails: is_tracked returns Err.
TrackedErr(fs) == ~IsDir(fs, ArcDir)

(***************************************************************************)
(* actions.rs: build_all, the part after the build script has run.         *)
(***************************************************************************)
Bytes(name) == <<MF("bytes", name)>>
ManifestPath(name, version) == ArcDir \o <<MF(name, version)>>
StubText(name, version) == <<Arrow, MF(name, version), NL>>

\* What the build script of a package puts under dest: its files, with
\* the directories that hold them.
ScriptTree(name, files) ==
    [p \in UNION {Prefixes(f) : f \in files} |->
        IF p \in files THEN File(Bytes(name)) ELSE Dir]

\* A faulty WithStubs: the dummy manifests are created and left empty.
WithStubsEmpty(dest, name, version, provides) ==
    [p \in DOMAIN dest \cup {ManifestPath(a, provides[a]) : a \in DOMAIN provides} |->
        IF \E a \in DOMAIN provides : p = ManifestPath(a, provides[a])
        THEN File(<<>>)
        ELSE dest[p]]

\* dest with the dummy manifests of the packages this one provides.
WithStubs(dest, name, version, provides) ==
    [p \in DOMAIN dest \cup {ManifestPath(a, provides[a]) : a \in DOMAIN provides} |->
        IF \E a \in DOMAIN provides : p = ManifestPath(a, provides[a])
        THEN File(StubText(name, version))
        ELSE dest[p]]

\* A faulty WithManifest: only the regular files under dest are listed.
WithManifestFilesOnly(dest, name, version, provides) ==
    LET made == Put(MkdirP(dest, ArcDir), ManifestPath(name, version), File(<<>>))
        stubbed == WithStubs(made, name, version, provides)
        manifest_content == TextOf(SortPaths({p \in DOMAIN stubbed : stubbed[p].kind = "file"}))
    IN Put(stubbed, ManifestPath(name, version), File(manifest_content))

\* Lines 550-582: the manifest is created empty under dest, then filled
\* with one line for each path glob finds under dest, itself included.
WithManifest(dest, name, version, provides) ==
    LET made == Put(MkdirP(dest, ArcDir), ManifestPath(name, version), File(<<>>))
        stubbed == WithStubs(made, name, version, provides)
        manifest_content == TextOf(SortPaths(DOMAIN stubbed))
    IN Put(stubbed, ManifestPath(name, version), File(manifest_content))

(***************************************************************************)
(* config.rs and actions.rs 535-548: the strip step.  An Option that is    *)
(* None is Unset; a bool of a recipe is "true" or "false".                 *)
(***************************************************************************)
Unset == "unset"
\* A configuration that sets neither strip nor su_cmd.
NoConfig == [strip |-> FALSE, su_cmd |-> Unset]

\* toml.meta.strip.unwrap_or(CFG.strip), line 536.
unwrap_or(strip, default) == IF strip = Unset THEN default ELSE strip = "true"

\* strip --strip-unneeded on one path: a binary loses its symbols; on
\* anything else strip fails, which line 540 ignores.
IsBinary(node) == node.kind = "file" /\ node.data # <<>> /\ node.data[1][1] = "bytes"
StripOne(node) ==
    IF IsBinary(node) THEN File(<<MF("stripped", node.data[1][2])>>) ELSE node

\* Lines 536-548 over dest.
StripAll(dest, strip, default) ==
    IF unwrap_or(strip, default) THEN [p \in DOMAIN dest |-> StripOne(dest[p])] ELSE dest

(***************************************************************************)
(* actions.rs: install_all.  The conflict pass of one package is a fold    *)
(* over the lines of its staged manifest; st is [tree, log, err]: the      *)
(* staging tree, the prompts answered so far, and whether a `?` returned.  *)
(* The result is the set of outcomes over the answers of the user and the  *)
(* manifest is_tracked happens to return.                                  *)
(***************************************************************************)
Prompt(name, line, other, overwrite) ==
    [pack |-> name, line |-> line, other |-> other, overwrite |-> overwrite]

\* Lines 634-644: the other package's live manifest without the line is
\* written into the staging tree of this package.
Overwrite(st, fs, name, other, line) ==
    LET other_manifest == Replace(ManifestText(fs, ArcDir, other), line \o <<NL>>)
    IN [st EXCEPT !.tree = Put(st.tree, ArcDir \o <<other>>, File(other_manifest)),
                  !.log = Append(st.log, Prompt(name, line, other, TRUE))]

\* Lines 646-656: the file leaves the staging tree and the staged
\* manifest.  When the line is the staged manifest itself, the manifest
\* is removed and the read of line 650 fails.
KeepExisting(st, name, version, other, line) ==
    IF line \notin DOMAIN st.tree \/ st.tree[line].kind = "dir"
    THEN [st EXCEPT !.err = TRUE, !.log = Append(st.log, Prompt(name, line, other, FALSE))]
    ELSE LET removed == Del(st.tree, {line})
         IN IF ManifestPath(name, version) \notin DOMAIN removed
            THEN [st EXCEPT !.tree = removed, !.err = TRUE,
                            !.log = Append(st.log, Prompt(name, line, other, FALSE))]
            ELSE LET new_manifest ==
                         Replace(removed[ManifestPath(name, version)].data, line \o <<NL>>)
                 IN [st EXCEPT !.tree = Put(removed, ManifestPath(name, version),
                                            File(new_manifest)),
                               !.log = Append(st.log, Prompt(name, line, other, FALSE))]

ConflictLine(st, fs, name, version, line) ==
    IF st.err THEN {st}
    ELSE IF TrackedErr(fs) THEN {[st EXCEPT !.err = TRUE]}
    ELSE IF Tracked(fs, line) = {} THEN {st}
    ELSE UNION {IF StatOk(fs, line) /\ Stat(fs, line).kind = "file" /\ n[1] # name
                THEN {Overwrite(st, fs, name, n, line),
                      KeepExisting(st, name, version, n, line)}
                ELSE {st} : n \in Tracked(fs, line)}

RECURSIVE ConflictPass(_, _, _, _, _)
ConflictPass(sts, fs, name, version, lines) ==
    IF lines = <<>> THEN sts
    ELSE ConflictPass(UNION {ConflictLine(st, fs, name, version, Head(lines)) : st \in sts},
                      fs, name, version, Tail(lines))

\* Lines 612-661 for one package: extract the tarball (if there is one)
\* over the staging directory, read the staged manifest, check each line.
StageOne(staging, fs, tarballs, name, version) ==
    LET old == IF name \in DOMAIN staging THEN staging[name] ELSE EmptyTree
        tree == IF MF(name, version) \in DOMAIN tarballs
                THEN Extract(old, tarballs[MF(name, version)]) ELSE old
        st == [tree |-> tree, log |-> <<>>, err |-> FALSE]
    IN IF ManifestPath(name, version) \notin DOMAIN tree
          \/ tree[ManifestPath(name, version)].kind # "file"
       THEN {[st EXCEPT !.err = TRUE]}
       ELSE ConflictPass({st}, fs, name, version,
                         Lines(tree[ManifestPath(name, version)].data))

WithTree(staging, name, tree) ==
    [n \in DOMAIN staging \cup {name} |-> IF n = name THEN tree ELSE staging[n]]
Without(f, name) == [n \in DOMAIN f \ {name} |-> f[n]]

\* The first loop of install_all over its packages; sts holds
\* [tmp, log, err] with tmp the staging directories under <cache>/tmp.
RECURSIVE StageAll(_, _, _, _)
StageAll(sts, fs, tarballs, packs) ==
    IF packs = <<>> THEN sts
    ELSE LET name == Head(packs)
             version == recipes[name].version
             next ==
                UNION {IF st.err THEN {st}
                       ELSE {[tmp |-> WithTree(st.tmp, name, o.tree),
                              log |-> st.log \o o.log,
                              err |-> o.err] :
                                o \in StageOne(st.tmp, fs, tarballs, name, version)} :
                       st \in sts}
         IN StageAll(next, fs, tarballs, Tail(packs))

\* The second loop of install_all: as root or through the elevation
\* command, every staging tree is placed under / and then removed.
RECURSIVE PlaceAll(_, _, _)
PlaceAll(fs, staging, packs) ==
    IF packs = <<>> THEN [live |-> fs, tmp |-> staging]
    ELSE PlaceAll(Place(fs, staging[Head(packs)]), Without(staging, Head(packs)),
                  Tail(packs))

\* A faulty InstallOutcomes: without a command to become root the
\* packages are placed all the same.
InstallOutcomesNoBail(fs, staging, tarballs, su_command, packs) ==
    {IF st.err \/ su_command = "absent"
     THEN [ok |-> FALSE, why |-> "failed", live |-> fs, tmp |-> st.tmp, log |-> st.log]
     ELSE [ok |-> TRUE, why |-> "", live |-> PlaceAll(fs, st.tmp, packs).live,
           tmp |-> PlaceAll(fs, st.tmp, packs).tmp, log |-> st.log] :
        st \in StageAll({[tmp |-> staging, log |-> <<>>, err |-> FALSE]},
                        fs, tarballs, packs)}

\* Lines 665-675 and the match of line 703, for a user who is "root", or
\* has /bin/sudo ("sudo"), or has no command to become root ("none"):
\* su_cmd if it is set, else the command found; a command that is not
\* one of sudo, doas, ssu falls to the bail of line 752 ("none"), and
\* one that is not on the system cannot be run ("absent").
SuCommand(su_cmd, user) ==
    IF user = "root" THEN "root"
    ELSE LET su_command == IF su_cmd # Unset THEN su_cmd
                           ELSE IF user = "sudo" THEN "sudo" ELSE ""
         IN IF su_command \notin {"sudo", "doas", "ssu"} THEN "none"
            ELSE IF su_command = "sudo" /\ user = "sudo" THEN "sudo"
            ELSE "absent"

\* install_all(packs): every outcome [ok, why, live, tmp, log].  A user
\* who is not root and has no command to become root gets the bail of
\* line 752, after the first loop.  The exit statuses of the commands run
\* through sudo are not looked at (lines 705-718, 756-759): when sudo
\* refuses the user, nothing is placed or removed and install_all
\* returns Ok all the same.  When the command cannot be run at all, the
\* `?` of line 708 returns the error.
InstallOutcomes(fs, staging, tarballs, su_command, packs) ==
    UNION {IF st.err \/ su_command = "absent"
           THEN {[ok |-> FALSE, why |-> "failed", live |-> fs, tmp |-> st.tmp, log |-> st.log]}
           ELSE IF su_command = "none"
           THEN {[ok |-> FALSE, why |-> "no_elevation", live |-> fs, tmp |-> st.tmp,
                  log |-> st.log]}
           ELSE {[ok |-> TRUE, why |-> "", live |-> PlaceAll(fs, st.tmp, packs).live,
                  tmp |-> PlaceAll(fs, st.tmp, packs).tmp, log |-> st.log]}
                \cup (IF su_command = "sudo"
                      THEN {[ok |-> TRUE, why |-> "", live |-> fs, tmp |-> st.tmp,
                             log |-> st.log]}
                      ELSE {}) :
        st \in StageAll({[tmp |-> staging, log |-> <<>>, err |-> FALSE]},
                        fs, tarballs, packs)}

(***************************************************************************)
(* lib.rs: remove, for one package.  st is [fs, err, shared]; rmdir and rm *)
(* run as the invoking user and change the tree under / only for root.     *)
(* shared collects the lines that, when their turn came, existed and were  *)
(* listed in the installed manifest of another package.                    *)
(***************************************************************************)
RECURSIVE Reverse(_)
Reverse(s) == IF s = <<>> THEN <<>> ELSE Append(Reverse(Tail(s)), Head(s))

OthersTracking(fs, pack, file) ==
    IF TrackedErr(fs) THEN {} ELSE {n \in Tracked(fs, file) : n[1] # pack}

\* Lines 411-435 for one manifest line.
RemoveLine(st, pack, as_root, file) ==
    IF st.err \/ file = MossDir THEN st
    ELSE LET fs == IF as_root THEN Rmdir(st.fs, file) ELSE st.fs
             seen == IF Exists(st.fs, file) /\ OthersTracking(st.fs, pack, file) # {}
                     THEN st.shared \cup {file} ELSE st.shared
             rm == IF as_root THEN Rm(fs, file) ELSE fs
         IN IF TrackedErr(fs) THEN [fs |-> fs, err |-> TRUE, shared |-> seen]
            ELSE IF Tracked(fs, file) # {}
            THEN IF ~Exists(fs, file) THEN [fs |-> fs, err |-> TRUE, shared |-> seen]
                 ELSE IF Node(fs, file).kind # "link"
                      THEN [fs |-> rm, err |-> FALSE, shared |-> seen]
                      ELSE [fs |-> fs, err |-> FALSE, shared |-> seen]
            ELSE [fs |-> rm, err |-> FALSE, shared |-> seen]

RECURSIVE RemoveLines(_, _, _, _)
RemoveLines(st, pack, as_root, lines) ==
    IF lines = <<>> THEN st
    ELSE RemoveLines(RemoveLine(st, pack, as_root, Head(lines)), pack, as_root, Tail(lines))

\* The manifest glob("/var/cache/moss/installed/{pack}@*") yields first.
MossVersions(fs, pack) == {v \in Versions : Exists(fs, MossDir \o <<MF(pack, v)>>)}
FirstVersion(S) == IF "1" \in S THEN "1" ELSE "2"

\* Lines 388-438: [status, fs, shared]; "panic" is the unwrap of line 397
\* on a glob that matched nothing.
RemoveOne(fs, pack, as_root) ==
    IF ~is_installed(fs, pack, "*") THEN [status |-> "failed", fs |-> fs, shared |-> {}]
    ELSE IF MossVersions(fs, pack) = {} THEN [status |-> "panic", fs |-> fs, shared |-> {}]
    ELSE LET manifest == Node(fs, MossDir \o <<MF(pack, FirstVersion(MossVersions(fs, pack)))>>).data
         IN IF StartsWith(manifest, <<Arrow>>)
            THEN [status |-> "failed", fs |-> fs, shared |-> {}]
            ELSE LET st == RemoveLines([fs |-> fs, err |-> FALSE, shared |-> {}],
                                       pack, as_root, Reverse(Lines(manifest)))
                 IN [status |-> IF st.err THEN "failed" ELSE "ok",
                     fs |-> st.fs, shared |-> st.shared]

\* lib.rs list, and the first loop of upgrade: the names glob finds under
\* /var/cache/moss/installed.
ListInstalled(fs) == {p[Len(p)] : p \in Children(fs, Canon(fs, MossDir))}

\* lib.rs 216-238: the loop of upgrade over the paths glob found; a name
\* whose recipe cannot be resolved is passed over, and a name goes on
\* packs when the version of its recipe is not installed.
RECURSIVE UpgradeScan(_, _)
UpgradeScan(fs, installed) ==
    IF installed = <<>> THEN <<>>
    ELSE LET basename == Head(installed)[Len(Head(installed))]
             name_no_ver == basename[1]
             rest == UpgradeScan(fs, Tail(installed))
         IN IF ~CanParse(<<name_no_ver>>) THEN rest
            ELSE IF ~is_installed(fs, name_no_ver, recipes[name_no_ver].version)
            THEN <<name_no_ver>> \o rest
            ELSE rest

\* glob("/var/cache/moss/installed/*"), in the order glob yields.
InstalledGlob(fs) == SortPaths(Children(fs, Canon(fs, MossDir)))

(***************************************************************************)
(* lib.rs: build, install, remove; actions.rs: summary, verify_checksums.  *)
(***************************************************************************)
Ev(e, pack) == [e |-> e, pack |-> pack]
Step(k, packs) == [k |-> k, packs |-> packs]
Last(s) == s[Len(s)]
NameSeq(list) == [k \in 1..Len(list) |-> list[k].name]

\* blake3 of a source file, and verify_checksums for one package: no
\* checksum may be missing and each must equal the hash at its position.
Hash(source) == <<"b3", source>>
SumsOk(r) ==
    /\ Len(r.sources) <= Len(r.checksums)
    /\ \A k \in 1..Len(r.sources) : Hash(r.sources[k]) = r.checksums[k]

\* lib.rs 303-314 and 334-345: the index pairs (first, end) that split a
\* list sorted by depth into its layers; i counts from 0 as in the code.
RECURSIVE LayerIdxs(_, _, _, _)
LayerIdxs(list, i, depth, prev_idx) ==
    IF i = Len(list) THEN <<<<prev_idx, Len(list)>>>>
    ELSE IF list[i + 1].depth < depth
         THEN <<<<prev_idx, i>>>> \o LayerIdxs(list, i + 1, list[i + 1].depth, i)
         ELSE LayerIdxs(list, i + 1, depth, prev_idx)

\* A faulty Layers: the whole list is one layer.
LayersSingle(list) == <<NameSeq(list)>>

Layers(list) ==
    LET idxs == LayerIdxs(list, 0, list[1].depth, 0)
    IN [k \in 1..Len(idxs) |-> NameSeq(SubSeq(list, idxs[k][1] + 1, idxs[k][2]))]

RECURSIVE Flatten(_)
Flatten(ss) == IF ss = <<>> THEN <<>> ELSE Head(ss) \o Flatten(Tail(ss))

\* build_all(packs): the packages are built one after the other.
BuildSteps(packs) == [k \in 1..Len(packs) |-> Step("build", <<packs[k]>>)]

\* lib.rs 298-327: a layer of make dependencies is built, then installed
\* by one install_all call.
MkdepSteps(list) ==
    IF list = <<>> THEN <<>>
    ELSE Flatten([k \in 1..Len(Layers(list)) |->
            Append(BuildSteps(Layers(list)[k]), Step("install", Layers(list)[k]))])

\* lib.rs 329-360: a layer of dependencies is built, then installed by
\* one install_all call for each package.
DepSteps(list) ==
    IF list = <<>> THEN <<>>
    ELSE Flatten([k \in 1..Len(Layers(list)) |->
            BuildSteps(Layers(list)[k]) \o
            [j \in 1..Len(Layers(list)[k]) |-> Step("install", <<Layers(list)[k][j]>>)]])

\* A faulty BuildPlan: the explicit packages are built and installed
\* before their dependencies.
BuildPlanExplicitFirst(packs, deps, mkdeps, yes) ==
    BuildSteps(packs) \o <<Step("install", packs)>> \o MkdepSteps(mkdeps) \o DepSteps(deps)

\* A faulty BuildPlan: the explicit packages are installed without the
\* prompt.
BuildPlanNoPrompt(packs, deps, mkdeps, yes) ==
    MkdepSteps(mkdeps) \o DepSteps(deps) \o BuildSteps(packs) \o <<Step("install", packs)>>

\* lib.rs 298-371: what build does after the checksums.
BuildPlan(packs, deps, mkdeps, yes) ==
    MkdepSteps(mkdeps) \o DepSteps(deps) \o BuildSteps(packs)
        \o (IF yes THEN <<>> ELSE <<Step("prompt", <<>>)>>)
        \o <<Step("install", packs)>>

\* No command runs: none was started, or the last one returned.
Idle ==
    \/ pc = "idle"
    \/ pc = "summary" /\ result.status \in {"circular", "unresolved"}

\* The command returns Ok once its last call has.
Finish(rest) ==
    IF rest = <<>> THEN pc' = "idle" /\ status' = "ok"
    ELSE UNCHANGED <<pc, status>>

\* A command starts in main, which creates /var/cache/moss/installed if
\* it is missing (and dies if it cannot), and goes on in summary
\* (actions.rs 117-125): the explicit packages are parsed and their
\* dependencies resolved.
Start(op, packs, yes) ==
    /\ ncmds > 0
    /\ ncmds' = ncmds - 1
    /\ cmd' = [op |-> op, yes |-> yes]
    /\ session' = Append(session, [op |-> op, packs |-> packs, live |-> live, bin |-> bin, prev |-> status])
    /\ plan' = <<>>
    /\ hist' = <<>>
    /\ prompts' = <<>>
    /\ shared' = {}
    /\ IF ~IsDir(live, MossDir) /\ elevation # "root"
       THEN /\ pc' = "idle"
            /\ status' = "failed"
            /\ result' = [status |-> "none", deps |-> <<>>, mkdeps |-> <<>>]
            /\ UNCHANGED <<live, pack_toml, frames, visiting, recorded>>
       ELSE /\ live' = MkdirP(live, MossDir)
            /\ pc' = "summary"
            /\ status' = "running"
            /\ IF CanParse(packs) THEN StartResolve(packs)
               ELSE /\ result' = [status |-> "unresolved", deps |-> <<>>, mkdeps |-> <<>>]
                    /\ UNCHANGED <<pack_toml, frames, visiting, recorded>>
    /\ UNCHANGED <<recipes, cfg, dvars, tvars, elevation, bin, tmp, scratch>>

\* lib.rs upgrade: after main, the installed manifests are scanned; build
\* is called on the names found, and when there are none the command
\* ends.
StartUpgrade(yes) ==
    LET packs == UpgradeScan(MkdirP(live, MossDir), InstalledGlob(MkdirP(live, MossDir)))
    IN IF packs # <<>> \/ (~IsDir(live, MossDir) /\ elevation # "root")
       THEN Start("upgrade", packs, yes)
       ELSE /\ ncmds > 0
            /\ ncmds' = ncmds - 1
            /\ cmd' = [op |-> "upgrade", yes |-> yes]
            /\ session' = Append(session, [op |-> "upgrade", packs |-> packs, live |-> live,
                                           bin |-> bin, prev |-> status])
            /\ plan' = <<>>
            /\ hist' = <<>>
            /\ prompts' = <<>>
            /\ shared' = {}
            /\ live' = MkdirP(live, MossDir)
            /\ pc' = "idle"
            /\ status' = "ok"
            /\ result' = [status |-> "none", deps |-> <<>>, mkdeps |-> <<>>]
            /\ UNCHANGED <<pack_toml, frames, visiting, recorded>>
            /\ UNCHANGED <<recipes, cfg, dvars, tvars, elevation, bin, tmp, scratch>>

\* The rest of summary (actions.rs 221-255): the table, and the prompt
\* unless `yes`, at which the user goes on or interrupts the program.
Summary ==
    /\ pc = "summary"
    /\ result.status = "ok"
    /\ \E go \in (IF cmd.yes THEN {TRUE} ELSE BOOLEAN) :
          IF ~go THEN pc' = "idle" /\ status' = "aborted" /\ plan' = <<>>
          ELSE IF cmd.op \in {"build", "upgrade"}
          THEN pc' = "verify" /\ UNCHANGED <<status, plan>>
          ELSE /\ pc' = "steps"
               /\ plan' = IF cmd.op = "install" THEN <<Step("install", pack_toml)>>
                          ELSE [k \in 1..Len(pack_toml) |-> Step("remove", <<pack_toml[k]>>)]
               /\ UNCHANGED status
    /\ UNCHANGED <<recipes, cfg, dvars, tvars, live, pack_toml, frames, visiting, result, recorded>>
    /\ UNCHANGED <<cmd, session, elevation, bin, tmp, scratch, ncmds, hist, prompts, shared>>

\* lib.rs 285-296: the sources of the three lists are downloaded (which
\* may fail), then checksums_all runs over pack_toml and over dep_toml.
Verify ==
    /\ pc = "verify"
    /\ \E fetched \in BOOLEAN :
          LET checked == pack_toml \o NameSeq(result.deps)
              bad == {k \in 1..Len(checked) : ~SumsOk(recipes[checked[k]])}
              stop == IF bad = {} THEN Len(checked) + 1
                      ELSE CHOOSE k \in bad : \A j \in bad : k <= j
          IN IF ~fetched
             THEN pc' = "idle" /\ status' = "failed" /\ UNCHANGED <<plan, hist>>
             ELSE /\ hist' = hist \o [k \in 1..(stop - 1) |-> Ev("verified", checked[k])]
                  /\ IF bad = {}
                     THEN /\ pc' = "steps"
                          /\ plan' = BuildPlan(pack_toml, result.deps, result.mkdeps, cmd.yes)
                          /\ UNCHANGED status
                     ELSE pc' = "idle" /\ status' = "failed" /\ UNCHANGED plan
    /\ UNCHANGED <<recipes, cfg, dvars, tvars, live, pack_toml, frames, visiting, result, recorded>>
    /\ UNCHANGED <<cmd, session, elevation, bin, tmp, scratch, ncmds, prompts, shared>>

\* A faulty builder: the script is run without dest_dir and puts its
\* files under /.
RootAfterScriptNoDest(fs, made) == Place(fs, made)

\* Lines 493-494: the script is run in src_dir with dest_dir as its first
\* argument and puts what it makes under dest_dir; log.txt, the manifest
\* and the tarball are written under <cache> too, so the tree under / is
\* what it was.
RootAfterScript(fs, made) == fs

\* One turn of the loop of build_all: the scratch directories are created
\* (what an earlier run left there stays), the build script runs, and if
\* it succeeds the manifest and the tarball are made and the scratch
\* directory removed; if it fails, build_all bails (line 532) with
\* "Couldn't build package".
BuildOne ==
    /\ pc = "steps"
    /\ plan # <<>>
    /\ Head(plan).k = "build"
    /\ LET name == Head(plan).packs[1]
           r == recipes[name]
           dest_dir == IF name \in DOMAIN scratch THEN scratch[name] ELSE EmptyTree
           dest == Extract(dest_dir, ScriptTree(name, r.files))
       IN /\ hist' = Append(hist, Ev("script", name))
          /\ live' = RootAfterScript(live, ScriptTree(name, r.files))
          /\ \E success \in BOOLEAN :
                IF success
                THEN /\ bin' = WithTree(bin, MF(name, r.version),
                                        WithManifest(StripAll(dest, r.strip, cfg.strip),
                                                     name, r.version, r.provides))
                     /\ scratch' = Without(scratch, name)
                     /\ plan' = Tail(plan)
                     /\ Finish(Tail(plan))
                ELSE /\ scratch' = WithTree(scratch, name, dest)
                     /\ pc' = "idle"
                     /\ status' = "build_failed"
                     /\ UNCHANGED <<bin, plan>>
    /\ UNCHANGED <<recipes, cfg, dvars, tvars, pack_toml, frames, visiting, result, recorded>>
    /\ UNCHANGED <<cmd, session, elevation, tmp, ncmds, prompts, shared>>

\* lib.rs 368: the prompt before the explicit packages are installed.
InstallPrompt ==
    /\ pc = "steps"
    /\ plan # <<>>
    /\ Head(plan).k = "prompt"
    /\ \E go \in BOOLEAN :
          IF go THEN /\ plan' = Tail(plan)
                     /\ hist' = Append(hist, Ev("prompted", ""))
                     /\ UNCHANGED <<pc, status>>
          ELSE pc' = "idle" /\ status' = "aborted" /\ UNCHANGED <<plan, hist>>
    /\ UNCHANGED <<recipes, cfg, dvars, tvars, live, pack_toml, frames, visiting, result, recorded>>
    /\ UNCHANGED <<cmd, session, elevation, bin, tmp, scratch, ncmds, prompts, shared>>

\* One call of install_all.
InstallAll ==
    /\ pc = "steps"
    /\ plan # <<>>
    /\ Head(plan).k = "install"
    /\ \E o \in InstallOutcomes(live, tmp, bin, SuCommand(cfg.su_cmd, elevation),
                                    Head(plan).packs) :
          /\ live' = o.live
          /\ tmp' = o.tmp
          /\ prompts' = o.log
          /\ IF o.ok
             THEN /\ hist' = hist \o [k \in 1..Len(Head(plan).packs) |->
                                        Ev("installed", Head(plan).packs[k])]
                  /\ plan' = Tail(plan)
                  /\ Finish(Tail(plan))
             ELSE /\ pc' = "idle"
                  /\ status' = o.why
                  /\ UNCHANGED <<plan, hist>>
    /\ UNCHANGED <<recipes, cfg, dvars, tvars, pack_toml, frames, visiting, result, recorded>>
    /\ UNCHANGED <<cmd, session, elevation, bin, scratch, ncmds, shared>>

\* One turn of the loop of remove.
RemovePack ==
    /\ pc = "steps"
    /\ plan # <<>>
    /\ Head(plan).k = "remove"
    /\ LET pack == Head(plan).packs[1]
           o == RemoveOne(live, pack, elevation = "root")
       IN /\ live' = o.fs
          /\ shared' = o.shared
          /\ hist' = Append(hist, Ev("removed", pack))
          /\ IF o.status = "ok"
             THEN plan' = Tail(plan) /\ Finish(Tail(plan))
             ELSE pc' = "idle" /\ status' = o.status /\ UNCHANGED plan
    /\ UNCHANGED <<recipes, cfg, dvars, tvars, pack_toml, frames, visiting, result, recorded>>
    /\ UNCHANGED <<cmd, session, elevation, bin, tmp, scratch, ncmds, prompts>>

(***************************************************************************)
(* actions.rs: download_one and verify_checksums.  A source string, a url  *)
(* and a file name are sequences of characters.                            *)
(***************************************************************************)
\* Largest number of download_one calls of one behaviour of SpecFetch.
MaxFetches == 2

TarPlus == <<"t", "a", "r", "+">>
GitPlus == <<"g", "i", "t", "+">>
HttpScheme == <<"h", "t", "t", "p", ":", "/", "/">>
HttpsScheme == <<"h", "t", "t", "p", "s", ":", "/", "/">>

\* The sources of the model: "http://h/f", "http://g/f", "https://h/r",
\* "tar+http://h/f", "git+https://h/r", and the local references "d/lf",
\* "lf" and "abc+lf".
UrlHF == HttpScheme \o <<"h", "/", "f">>
UrlGF == HttpScheme \o <<"g", "/", "f">>
UrlHR == HttpsScheme \o <<"h", "/", "r">>
TarHF == TarPlus \o UrlHF
GitHR == GitPlus \o UrlHR
LocalDLF == <<"d", "/", "l", "f">>
LocalLF == <<"l", "f">>
LocalPlus == <<"a", "b", "c", "+", "l", "f">>

\* The files of the recipe directory.
RepoFiles == {LocalDLF, LocalLF}

\* {dir} of line 780, with the slash that joins it to a file name.
DlDir == <<"/", "c", "/", "d", "l", "/">>

\* url.split('/').last(): what follows the last slash.
RECURSIVE LastSegment(_)
LastSegment(s) ==
    IF \A k \in 1..Len(s) : s[k] # "/" THEN s
    ELSE LastSegment(Tail(s))

\* &s[3..4] == "+"; the slice panics on a string of fewer than 4 bytes.
SlicePanics(s) == Len(s) < 4
HasPrefix(s) == s[4] = "+"
Stripped(s) == IF HasPrefix(s) THEN SubSeq(s, 5, Len(s)) ELSE s

\* Lines 786-796 for one source: the cache file, the url without its
\* prefix and the entry pushed on fnames.
FileName(og_url) == LastSegment(og_url)
FName(og_url) ==
    IF HasPrefix(og_url) THEN TarPlus \o DlDir \o FileName(og_url)
    ELSE DlDir \o FileName(og_url)

IsRemote(url) == StartsWith(url, HttpsScheme) \/ StartsWith(url, HttpScheme)

\* File contents: what a GET of a url returned, a copy of a file of the
\* recipe directory, or what the cache held before.
Got(url) == [by |-> "get", of |-> url]
Copied(path) == [by |-> "copy", of |-> path]
Stale == [by |-> "old", of |-> <<>>]
Req(e, url) == [e |-> e, of |-> url]

\* Responses of a server.
Ok200 == [code |-> "ok", location |-> <<>>]
Redirect(to) == [code |-> "redirect", location |-> to]
Error404 == [code |-> "error", location |-> <<>>]

NoCall == [urls |-> <<>>, force |-> FALSE, idx |-> 1, url |-> <<>>, fnames |-> <<>>,
           at |-> "none"]
NoVerdict == [checksums |-> <<>>, result |-> "none"]
CallEnded(c) == c.at \in {"done", "failed", "panic"}

\* No download_one call was made.
NoDownload ==
    /\ net = <<>>
    /\ dl_dir = <<>>
    /\ call = NoCall
    /\ traffic = {}
    /\ past = <<>>
    /\ verdict = NoVerdict

\* download_one(urls, ..., force) is called: lines 777-781.
StartFetch(urls, force) ==
    /\ call.at = "none" \/ CallEnded(call)
    /\ Len(past) + (IF call.at = "none" THEN 0 ELSE 1) < MaxFetches
    /\ past' = IF call.at = "none" THEN past
               ELSE Append(past, [urls |-> call.urls, force |-> call.force, at |-> call.at,
                                  fnames |-> call.fnames, traffic |-> traffic,
                                  dl_dir |-> dl_dir])
    /\ call' = [urls |-> urls, force |-> force, idx |-> 1, url |-> <<>>, fnames |-> <<>>,
                at |-> "loop"]
    /\ traffic' = {}
    /\ verdict' = NoVerdict
    /\ UNCHANGED <<net, dl_dir>>

\* A faulty skip test: a file that is in the cache is skipped even when
\* the download is forced.
SkipsForced(files, filename, force) == filename \in DOMAIN files

\* A faulty skip test: a file that is in the cache is fetched again.
SkipsNever(files, filename, force) == FALSE

\* Line 800: the file is in the cache and the download is not forced.
Skips(files, filename, force) == filename \in DOMAIN files /\ ~force

\* One turn of the loop over urls, up to the request of a remote url
\* (lines 783-803 and 851-857); past the last url, fnames is returned.
NextUrl ==
    /\ call.at = "loop"
    /\ IF call.idx > Len(call.urls)
       THEN call' = [call EXCEPT !.at = "done"] /\ UNCHANGED <<dl_dir, traffic>>
       ELSE LET og_url == call.urls[call.idx]
                filename == FileName(og_url)
                url == Stripped(og_url)
                pushed == [call EXCEPT !.fnames = Append(@, FName(og_url)), !.url = url]
            IN IF SlicePanics(og_url)
               THEN call' = [call EXCEPT !.at = "panic"] /\ UNCHANGED <<dl_dir, traffic>>
               ELSE IF Skips(dl_dir, filename, call.force)
               THEN /\ call' = [pushed EXCEPT !.idx = @ + 1]
                    /\ UNCHANGED <<dl_dir, traffic>>
               ELSE IF IsRemote(url)
               THEN call' = [pushed EXCEPT !.at = "request"] /\ UNCHANGED <<dl_dir, traffic>>
               ELSE IF StartsWith(url, GitPlus)
               THEN call' = [pushed EXCEPT !.at = "failed"] /\ UNCHANGED <<dl_dir, traffic>>
               ELSE IF url \in RepoFiles
               THEN /\ dl_dir' = [f \in DOMAIN dl_dir \cup {filename} |->
                                     IF f = filename THEN Copied(url) ELSE dl_dir[f]]
                    /\ traffic' = traffic \cup {Req("copy", url)}
                    /\ call' = [pushed EXCEPT !.idx = @ + 1]
               ELSE call' = [pushed EXCEPT !.at = "failed"] /\ UNCHANGED <<dl_dir, traffic>>
    /\ UNCHANGED <<net, past, verdict>>

\* One turn of the loop of lines 817-849: HEAD and GET of the url; the
\* body is saved, or the Location of a redirect becomes the url, or the
\* call fails.
Request ==
    /\ call.at = "request"
    /\ LET filename == FileName(call.urls[call.idx])
           res == IF call.url \in DOMAIN net THEN net[call.url] ELSE Error404
       IN /\ traffic' = traffic \cup {Req("head", call.url), Req("get", call.url)}
          /\ IF res.code = "ok"
             THEN /\ dl_dir' = [f \in DOMAIN dl_dir \cup {filename} |->
                                   IF f = filename THEN Got(call.url) ELSE dl_dir[f]]
                  /\ call' = [call EXCEPT !.idx = @ + 1, !.at = "loop"]
             ELSE IF res.code = "redirect"
             THEN call' = [call EXCEPT !.url = res.location] /\ UNCHANGED dl_dir
             ELSE call' = [call EXCEPT !.at = "failed"] /\ UNCHANGED dl_dir
    /\ UNCHANGED <<net, past, verdict>>

\* fs::read of an entry of fnames, its prefix removed (lines 875-878).
CachePath(file) == IF HasPrefix(file) THEN SubSeq(file, 5, Len(file)) ELSE file
Readable(files, file) ==
    /\ StartsWith(CachePath(file), DlDir)
    /\ SubSeq(CachePath(file), Len(DlDir) + 1, Len(CachePath(file))) \in DOMAIN files
Read(files, file) == files[SubSeq(CachePath(file), Len(DlDir) + 1, Len(CachePath(file)))]

Min(m, n) == IF m <= n THEN m ELSE n

\* A faulty verify_checksums: the lists must be of one length.
VerifySameLength(fnames, checksums, files) ==
    IF Len(fnames) # Len(checksums) THEN "missing"
    ELSE IF \E k \in 1..Len(fnames) : ~Readable(files, fnames[k]) THEN "unreadable"
    ELSE IF \E k \in 1..Len(fnames) : Hash(Read(files, fnames[k])) # checksums[k]
    THEN "mismatch"
    ELSE "ok"

\* verify_checksums(fnames, checksums): the bail of line 870, then the
\* pairs of fnames.iter().zip(checksums) in order, up to the first that
\* cannot be read or does not match.
verify_checksums(fnames, checksums, files) ==
    IF Len(fnames) > Len(checksums) THEN "missing"
    ELSE LET zipped == 1..Min(Len(fnames), Len(checksums))
             bad == {k \in zipped : \/ ~Readable(files, fnames[k])
                                    \/ Hash(Read(files, fnames[k])) # checksums[k]}
             first == CHOOSE k \in bad : \A j \in bad : k <= j
         IN IF bad = {} THEN "ok"
            ELSE IF ~Readable(files, fnames[first]) THEN "unreadable"
            ELSE "mismatch"

\* The checksum lists a recipe may carry for the files of fnames: the
\* right ones, one too few, one too many, and a wrong first one.
Wrong == Hash(Stale)
RightSums(fnames, files) ==
    [k \in 1..Len(fnames) |->
        IF Readable(files, fnames[k]) THEN Hash(Read(files, fnames[k])) ELSE Wrong]
WrongFirst(sums) == [k \in 1..Len(sums) |-> IF k = 1 THEN Hash(Got(<<>>)) ELSE sums[k]]
SumLists(fnames, files) ==
    LET right == RightSums(fnames, files)
    IN {right, SubSeq(right, 1, Len(right) - 1), Append(right, Wrong),
        WrongFirst(Append(right, Wrong))}

\* checksums_all for the package whose sources were fetched.
VerifyChecksums ==
    /\ call.at = "done"
    /\ verdict.result = "none"
    /\ \E checksums \in SumLists(call.fnames, dl_dir) :
          verdict' = [checksums |-> checksums,
                      result |-> verify_checksums(call.fnames, checksums, dl_dir)]
    /\ UNCHANGED <<net, dl_dir, call, traffic, past>>

(***************************************************************************)
(* actions.rs: the verbose branch of build_all (lines 504-533), and        *)
(* util.rs: tee.  A byte is <<stream, k>>: the k-th byte the script wrote  *)
(* to that stream.                                                         *)
(***************************************************************************)
\* Most bytes the script writes to one stream.
MaxBytes == 2
\* The length of buf in tee.
BufLen == 1024

Streams == {"out", "err"}
Written(s, n) == [k \in 1..n |-> <<s, k>>]
Nothing == [s \in Streams |-> <<>>]

\* The open file description File::create made for log.txt, and the
\* handles the two threads hold.
Created == "log_file"
Descriptions == {Created} \cup Streams

\* A faulty try_clone: the clone is a new open file description, with an
\* offset of its own.
TryCloneReopens(file, s) == s

\* log_file.try_clone() for the thread of stream s: the clone is a
\* duplicate of the descriptor, so it shares the open file description
\* and its offset.
try_clone(file, s) == file

\* write(2) of buf at the offset pos of a file that holds data.
WriteAt(data, pos, buf) ==
    SubSeq(data, 1, pos) \o buf \o SubSeq(data, pos + Len(buf) + 1, Len(data))

\* out_1.write_all(buf) on the handle of stream s.
write_all(file, s, buf) ==
    LET d == try_clone(Created, s)
    IN [data |-> WriteAt(file.data, file.pos[d], buf),
        pos |-> [file.pos EXCEPT ![d] = @ + Len(buf)]]

NoThread == [at |-> "none", buf |-> <<>>, got |-> <<>>]

\* No verbose build was run.
NoChild ==
    /\ child = [todo |-> Nothing, wrote |-> Nothing, state |-> "none", success |-> FALSE]
    /\ pipes = Nothing
    /\ threads = [s \in Streams |-> NoThread]
    /\ log_file = [data |-> <<>>, pos |-> [d \in Descriptions |-> 0]]
    /\ stdout = <<>>
    /\ step = [at |-> "none", outcome |-> "none"]

\* Lines 492-519: log.txt is created, the script is spawned with both
\* streams piped, and a thread is spawned for each stream.
Spawn ==
    /\ step.at = "none"
    /\ \E m, n \in 0..MaxBytes :
          child' = [todo |-> [out |-> Written("out", m), err |-> Written("err", n)],
                    wrote |-> Nothing, state |-> "running", success |-> FALSE]
    /\ threads' = [s \in Streams |-> [NoThread EXCEPT !.at = "read"]]
    /\ step' = [step EXCEPT !.at = "join_out"]
    /\ UNCHANGED <<pipes, log_file, stdout>>

\* The script writes a byte to one of its streams; when the thread that
\* read the pipe is gone, the write kills the script.
ScriptWrite ==
    /\ child.state = "running"
    /\ \E s \in Streams :
          /\ child.todo[s] # <<>>
          /\ IF threads[s].at = "panic"
             THEN /\ child' = [child EXCEPT !.state = "exited", !.success = FALSE]
                  /\ UNCHANGED pipes
             ELSE /\ child' = [child EXCEPT !.todo[s] = Tail(@),
                                            !.wrote[s] = Append(@, Head(child.todo[s]))]
                  /\ pipes' = [pipes EXCEPT ![s] = Append(@, Head(child.todo[s]))]
    /\ UNCHANGED <<threads, log_file, stdout, step>>

\* The script exits, with status 0 or another.
ScriptExit ==
    /\ child.state = "running"
    /\ \A s \in Streams : child.todo[s] = <<>>
    /\ \E success \in BOOLEAN :
          child' = [child EXCEPT !.state = "exited", !.success = success]
    /\ UNCHANGED <<pipes, threads, log_file, stdout, step>>

\* A faulty loop of tee: the chunk is written to out_1 only.
AfterWrite1Only == "read"

\* util.rs 21-22: after out_1.write_all comes out_2.write_all.
AfterWrite1 == "write_2"

\* util.rs 15-20: stream.read(&mut buf) returns some of the bytes in the
\* pipe, at most BufLen; 0 at end of file, which is when the pipe is
\* empty and the script has exited.
TeeRead ==
    /\ \E s \in Streams :
          /\ threads[s].at = "read"
          /\ IF pipes[s] # <<>>
             THEN \E num_read \in 1..Min(Len(pipes[s]), BufLen) :
                     /\ threads' = [threads EXCEPT
                                       ![s].buf = SubSeq(pipes[s], 1, num_read),
                                       ![s].got = @ \o SubSeq(pipes[s], 1, num_read),
                                       ![s].at = "write_1"]
                     /\ pipes' = [pipes EXCEPT
                                     ![s] = SubSeq(@, num_read + 1, Len(@))]
             ELSE /\ child.state = "exited"
                  /\ threads' = [threads EXCEPT ![s].at = "done"]
                  /\ UNCHANGED pipes
    /\ UNCHANGED <<child, log_file, stdout, step>>

\* util.rs 21: out_1.write_all(buf), out_1 being the clone of log.txt.
TeeWrite1 ==
    /\ \E s \in Streams :
          /\ threads[s].at = "write_1"
          /\ log_file' = write_all(log_file, s, threads[s].buf)
          /\ threads' = [threads EXCEPT ![s].at = AfterWrite1]
    /\ UNCHANGED <<child, pipes, stdout, step>>

\* util.rs 22: out_2.write_all(buf), out_2 being io::stdout().
TeeWrite2 ==
    /\ \E s \in Streams :
          /\ threads[s].at = "write_2"
          /\ stdout' = stdout \o threads[s].buf
          /\ threads' = [threads EXCEPT ![s].at = "read", ![s].buf = <<>>]
    /\ UNCHANGED <<child, pipes, log_file, step>>

\* The read or one of the writes returns an error: tee returns it and
\* the expect of lines 513, 518 panics in the thread.
TeeError ==
    /\ \E s \in Streams :
          /\ threads[s].at \in {"read", "write_1", "write_2"}
          /\ threads' = [threads EXCEPT ![s].at = "panic"]
    /\ UNCHANGED <<child, pipes, log_file, stdout, step>>

\* Line 522: thread_out.join().unwrap() panics when the thread did.
JoinOut ==
    /\ step.at = "join_out"
    /\ threads["out"].at \in {"done", "panic"}
    /\ step' = [step EXCEPT !.at = IF threads["out"].at = "done" THEN "join_err" ELSE "panic"]
    /\ UNCHANGED <<child, pipes, threads, log_file, stdout>>

\* Line 523: thread_err.join().unwrap().
JoinErr ==
    /\ step.at = "join_err"
    /\ threads["err"].at \in {"done", "panic"}
    /\ step' = [step EXCEPT !.at = IF threads["err"].at = "done" THEN "wait" ELSE "panic"]
    /\ UNCHANGED <<child, pipes, threads, log_file, stdout>>

\* Lines 524-533: child.wait(), then success or the bail of line 532.
Wait ==
    /\ step.at = "wait"
    /\ child.state = "exited"
    /\ child' = [child EXCEPT !.state = "reaped"]
    /\ step' = [at |-> "returned", outcome |-> IF child.success THEN "built" ELSE "failed"]
    /\ UNCHANGED <<pipes, threads, log_file, stdout>>
(***************************************************************************)
(* Recipe stores and installed packages of SpecResolve: every store over   *)
(* Names with at most MaxEdges edges.  An edge may name NoRecipe, a        *)
(* package without a recipe; only package c may be installed, so only      *)
(* edges to c carry more than one version key.                             *)
(***************************************************************************)
EdgeKeys(to) == IF to = "c" THEN {"1", "2"} ELSE {"1"}
EdgeU ==
    {[from |-> f, kind |-> k, to |-> t, key |-> v] :
        f \in Names, k \in {"deps", "mkdeps"},
        t \in Names \cup {NoRecipe}, v \in {"1", "2"}}
Edges == {e \in EdgeU : e.key \in EdgeKeys(e.to)}
SameSlot(e, f) == e.from = f.from /\ e.kind = f.kind /\ e.to = f.to


\* The sets of at most k edges of E with no two edges in the same slot.
RECURSIVE GraphsOver(_, _)
GraphsOver(E, k) ==
    IF k = 0 THEN {{}}
    ELSE LET G == GraphsOver(E, k - 1)
         IN G \cup UNION {{g \cup {e} : e \in {x \in E : \A f \in g : ~SameSlot(x, f)}} :
                            g \in G}
Graphs(k) == GraphsOver(Edges, k)

MapOf(g, n, kind) ==
    LET out == {e \in g : e.from = n /\ e.kind = kind}
    IN [t \in {e.to : e \in out} |-> (CHOOSE e \in out : e.to = t).key]

\* What the build script of each package installs.
BinX == <<Seg("bin"), Seg("x")>>
BinY == <<Seg("bin"), Seg("y")>>
FilesOf(n) == IF n = "c" THEN {BinY} ELSE {BinX, BinY}
NoProvides == [n \in {} |-> "1"]

\* The package.toml of n in store g; the packages of bad carry a checksum
\* that is not the hash of their source.
Recipe(g, n, bad) ==
    [version |-> "1", deps |-> MapOf(g, n, "deps"), mkdeps |-> MapOf(g, n, "mkdeps"),
     files |-> FilesOf(n), provides |-> NoProvides,
     sources |-> <<n>>, strip |-> Unset,
     checksums |-> IF n \in bad THEN <<Hash("other")>> ELSE <<Hash(n)>>]

\* main.rs creates /var/cache/moss/installed before any command runs.
BaseLive == MkdirP(EmptyTree, MossDir)

\* The live tree the first command finds: "clean" is what main.rs makes of
\* an empty system, "split" has /var/cache/arc/installed beside it, and
\* in "linked" /var/cache/arc is a symbolic link to /var/cache/moss.
Layouts == {"clean", "split", "linked"}
Layout(l) ==
    IF l = "clean" THEN BaseLive
    ELSE IF l = "split" THEN MkdirP(BaseLive, ArcDir)
    ELSE Put(BaseLive, VarCache \o <<Seg("arc")>>, Link(VarCache \o <<Seg("moss")>>))

\* fs after package n at version 1 was built and installed over it.
Installed(fs, n) ==
    Place(fs, WithManifest(ScriptTree(n, FilesOf(n)), n, "1", NoProvides))

SeedLists == {<<"a">>, <<"a", "b">>}

\* No command was run yet; left commands may still be run.
InitSession(left) ==
    /\ pack_toml = <<>>
    /\ frames = <<>>
    /\ visiting = {}
    /\ result = [status |-> "none", deps |-> <<>>, mkdeps |-> <<>>]
    /\ recorded = {}
    /\ cmd = [op |-> "none", yes |-> TRUE]
    /\ session = <<>>
    /\ pc = "idle"
    /\ plan = <<>>
    /\ bin = EmptyTree
    /\ tmp = EmptyTree
    /\ scratch = EmptyTree
    /\ status = "none"
    /\ ncmds = left
    /\ hist = <<>>
    /\ prompts = <<>>
    /\ shared = {}
    /\ NoDownload
    /\ NoChild

(***************************************************************************)
(* SpecResolve: one call of resolve_deps, as summary makes it.             *)
(***************************************************************************)
InitResolve ==
    /\ \E g \in Graphs(MaxEdges) : recipes = [n \in Names |-> Recipe(g, n, {})]
    /\ \E inst \in {"split", "c"} :
          live = IF inst = "c" THEN Installed(Layout("split"), "c") ELSE Layout("split")
    /\ elevation = "root"
    /\ cfg = NoConfig
    /\ InitSession(0)

Resolve ==
    /\ result.status = "none"
    /\ \E packs \in SeedLists : StartResolve(packs)
    /\ UNCHANGED <<recipes, cfg, dvars, tvars, live>>
    /\ UNCHANGED pvars

NextResolve == Resolve \/ ResolveEdge \/ ResolveReturn

SpecResolve == InitResolve /\ [][NextResolve]_vars

(***************************************************************************)
(* SpecBuild: one build command over every store of at most MaxEdges       *)
(* edges among the packages that have a recipe.                            *)
(***************************************************************************)
BuildEdges == {e \in Edges : e.to \in Names /\ e.key = "1"}
BadSums == {{}, {"b"}, {"c"}}

Build ==
    /\ Idle
    /\ \E packs \in SeedLists, yes \in BOOLEAN : Start("build", packs, yes)

InitBuild ==
    /\ \E g \in GraphsOver(BuildEdges, MaxEdges), bad \in BadSums :
          recipes = [n \in Names |-> Recipe(g, n, bad)]
    /\ \E inst \in {"linked", "c"} :
          live = IF inst = "c" THEN Installed(Layout("linked"), "c") ELSE Layout("linked")
    /\ elevation = "root"
    /\ cfg = NoConfig
    /\ InitSession(1)

NextBuild ==
    \/ Build
    \/ ResolveEdge
    \/ ResolveReturn
    \/ Summary
    \/ Verify
    \/ BuildOne
    \/ InstallPrompt
    \/ InstallAll

SpecBuild == InitBuild /\ [][NextBuild]_vars

(***************************************************************************)
(* Spec: up to MaxCmds build, install and remove commands over a small     *)
(* store, from every layout of the live tree and as every kind of user.    *)
(***************************************************************************)
StoreEdge == [from |-> "a", kind |-> "deps", to |-> "c", key |-> "1"]
Stores == {{}, {StoreEdge}}
PackLists == {<<"a">>, <<"b">>, <<"c">>, <<"a", "c">>}

Install ==
    /\ Idle
    /\ \E packs \in PackLists, yes \in BOOLEAN : Start("install", packs, yes)
Remove ==
    /\ Idle
    /\ \E packs \in PackLists, yes \in BOOLEAN : Start("remove", packs, yes)
BuildAny ==
    /\ Idle
    /\ \E packs \in PackLists, yes \in BOOLEAN : Start("build", packs, yes)

\* What the recipe of c lists under provides: nothing, or the alias b, a
\* name that has a recipe of its own.
Provided == {NoProvides, [n \in {"b"} |-> "1"]}

Init ==
    /\ \E g \in Stores, provided \in Provided :
          recipes = [n \in Names |->
                        IF n = "c" THEN [Recipe(g, n, {}) EXCEPT !.provides = provided]
                        ELSE Recipe(g, n, {})]
    /\ \E l \in Layouts : live = Layout(l)
    /\ elevation \in {"root", "sudo", "none"}
    /\ cfg = NoConfig
    /\ InitSession(MaxCmds)

Next ==
    \/ BuildAny
    \/ Install
    \/ Remove
    \/ ResolveEdge
    \/ ResolveReturn
    \/ Summary
    \/ Verify
    \/ BuildOne
    \/ InstallPrompt
    \/ InstallAll
    \/ RemovePack

Spec == Init /\ [][Next]_vars

(***************************************************************************)
(* SpecUpgrade: one upgrade command, as root, on a system where some of    *)
(* a@1, a@2, c@1, c@2 and z@1 were installed; the recipes are at version   *)
(* 1 and z has no recipe.                                                  *)
(***************************************************************************)
\* What install_all took from staging when it installed the packages of
\* which, in that order: a file two of them ship is the later one's.
Staged(m) == WithManifest(ScriptTree(m[1], FilesOf(m[1])), m[1], m[2], NoProvides)
StagedAll(which) ==
    [p \in UNION {DOMAIN Staged(which[k]) : k \in 1..Len(which)} |->
        LET last == CHOOSE k \in 1..Len(which) :
                        /\ p \in DOMAIN Staged(which[k])
                        /\ \A j \in (k + 1)..Len(which) : p \notin DOMAIN Staged(which[j])
        IN Staged(which[last])[p]]
InstalledAll(fs, which) == Place(fs, StagedAll(which))

Preinstalled ==
    {<<>>, <<MF("a", "2")>>, <<MF("c", "1")>>, <<MF(NoRecipe, "1")>>,
     <<MF("a", "2"), MF("c", "1")>>, <<MF("a", "2"), MF(NoRecipe, "1")>>,
     <<MF("a", "1"), MF("a", "2")>>, <<MF("c", "2")>>}

InitUpgrade ==
    /\ \E g \in Stores : recipes = [n \in Names |-> Recipe(g, n, {})]
    /\ \E l \in {"split", "linked"}, which \in Preinstalled :
          live = InstalledAll(Layout(l), which)
    /\ elevation = "root"
    /\ cfg = NoConfig
    /\ InitSession(1)

Upgrade ==
    /\ Idle
    /\ \E yes \in BOOLEAN : StartUpgrade(yes)

NextUpgrade ==
    \/ Upgrade
    \/ ResolveEdge
    \/ ResolveReturn
    \/ Summary
    \/ Verify
    \/ BuildOne
    \/ InstallPrompt
    \/ InstallAll

SpecUpgrade == InitUpgrade /\ [][NextUpgrade]_vars

(***************************************************************************)
(* SpecFetch: up to MaxFetches calls of download_one, each followed or not *)
(* by verify_checksums, against every server of Servers and over an empty  *)
(* download cache or one that holds a file f already.                      *)
(***************************************************************************)
\* The rest of the state, which download_one leaves alone.
mvars == <<recipes, cfg, live, pack_toml, frames, visiting, result, recorded>>

Server(hf, gf) == [u \in {UrlHF, UrlGF, UrlHR} |->
                     IF u = UrlHF THEN hf ELSE IF u = UrlGF THEN gf ELSE Ok200]
Servers ==
    {Server(hf, gf) : hf \in {Ok200, Redirect(UrlGF), Error404},
                      gf \in {Ok200, Redirect(UrlHF)}}
Caches == {<<>>, [f \in {<<"f">>} |-> Stale]}
UrlLists ==
    {<<>>, <<UrlHF>>, <<TarHF>>, <<GitHR>>, <<LocalDLF>>, <<LocalLF>>, <<LocalPlus>>,
     <<UrlHF, UrlGF>>, <<UrlGF, UrlHF>>, <<TarHF, LocalDLF>>, <<LocalDLF, GitHR>>}

InitFetch ==
    /\ recipes = [n \in Names |-> Recipe({}, n, {})]
    /\ live = BaseLive
    /\ elevation = "root"
    /\ cfg = NoConfig
    /\ pack_toml = <<>>
    /\ frames = <<>>
    /\ visiting = {}
    /\ result = [status |-> "none", deps |-> <<>>, mkdeps |-> <<>>]
    /\ recorded = {}
    /\ cmd = [op |-> "none", yes |-> TRUE]
    /\ session = <<>>
    /\ pc = "idle"
    /\ plan = <<>>
    /\ bin = EmptyTree
    /\ tmp = EmptyTree
    /\ scratch = EmptyTree
    /\ status = "none"
    /\ ncmds = 0
    /\ hist = <<>>
    /\ prompts = <<>>
    /\ shared = {}
    /\ net \in Servers
    /\ dl_dir \in Caches
    /\ call = NoCall
    /\ traffic = {}
    /\ past = <<>>
    /\ verdict = NoVerdict
    /\ NoChild

Fetch ==
    /\ \E urls \in UrlLists, force \in BOOLEAN : StartFetch(urls, force)
    /\ UNCHANGED <<mvars, pvars, tvars>>
FetchNextUrl == NextUrl /\ UNCHANGED <<mvars, pvars, tvars>>
FetchRequest == Request /\ UNCHANGED <<mvars, pvars, tvars>>
FetchVerify == VerifyChecksums /\ UNCHANGED <<mvars, pvars, tvars>>

NextFetch == Fetch \/ FetchNextUrl \/ FetchRequest \/ FetchVerify

SpecFetch == InitFetch /\ [][NextFetch]_vars

\* The loops of download_one run on: a step that can be taken is taken.
SpecFetchLive == SpecFetch /\ WF_vars(FetchNextUrl) /\ WF_vars(FetchRequest)

(***************************************************************************)
(* SpecTee: one verbose run of a build script that writes up to MaxBytes   *)
(* bytes to each of its streams, with the two writer threads and the       *)
(* script running side by side.                                            *)
(***************************************************************************)
InitTee ==
    /\ recipes = [n \in Names |-> Recipe({}, n, {})]
    /\ live = BaseLive
    /\ elevation = "root"
    /\ cfg = NoConfig
    /\ InitSession(0)

TeeSpawn == Spawn /\ UNCHANGED <<mvars, pvars, dvars>>
TeeScriptWrite == ScriptWrite /\ UNCHANGED <<mvars, pvars, dvars>>
TeeScriptExit == ScriptExit /\ UNCHANGED <<mvars, pvars, dvars>>
TeeReads == TeeRead /\ UNCHANGED <<mvars, pvars, dvars>>
TeeWritesLog == TeeWrite1 /\ UNCHANGED <<mvars, pvars, dvars>>
TeeWritesStdout == TeeWrite2 /\ UNCHANGED <<mvars, pvars, dvars>>
TeeFails == TeeError /\ UNCHANGED <<mvars, pvars, dvars>>
TeeJoinOut == JoinOut /\ UNCHANGED <<mvars, pvars, dvars>>
TeeJoinErr == JoinErr /\ UNCHANGED <<mvars, pvars, dvars>>
TeeWait == Wait /\ UNCHANGED <<mvars, pvars, dvars>>

NextTee ==
    \/ TeeSpawn
    \/ TeeScriptWrite
    \/ TeeScriptExit
    \/ TeeReads
    \/ TeeWritesLog
    \/ TeeWritesStdout
    \/ TeeFails
    \/ TeeJoinOut
    \/ TeeJoinErr
    \/ TeeWait

SpecTee == InitTee /\ [][NextTee]_vars

(***************************************************************************)
(* SpecConfig: one build command under every configuration of Configs,     *)
(* over recipes that set strip or leave it out, as every kind of user.     *)
(***************************************************************************)
Configs == [strip : BOOLEAN, su_cmd : {Unset, "sudo", "doas", "run0"}]
RecipeStrips == {Unset, "true", "false"}

InitConfig ==
    /\ \E strip \in RecipeStrips :
          recipes = [n \in Names |-> [Recipe({}, n, {}) EXCEPT !.strip = strip]]
    /\ live = Layout("linked")
    /\ elevation \in {"root", "sudo", "none"}
    /\ cfg \in Configs
    /\ InitSession(1)

BuildSingle ==
    /\ Idle
    /\ \E pack \in {"a", "c"} : Start("build", <<pack>>, TRUE)

NextConfig ==
    \/ BuildSingle
    \/ ResolveReturn
    \/ Summary
    \/ Verify
    \/ BuildOne
    \/ InstallAll

SpecConfig == InitConfig /\ [][NextConfig]_vars

(***************************************************************************)
(* SpecConflict: one build of a or c, as root, on a system where z@1 was   *)
(* installed with some of /bin/x, /bin/y and /var/bin/y, and before it,    *)
(* or not, c@2 with /bin/y.                                                *)
(***************************************************************************)
VarBinY == <<Seg("var"), Seg("bin"), Seg("y")>>
OwnedSets == (SUBSET {BinX, BinY, VarBinY}) \ {{}}
Owning(files) == WithManifest(ScriptTree(NoRecipe, files), NoRecipe, "1", NoProvides)

\* What install_all took from staging for the packages of which and then
\* for the tree last.
StagedWith(which, last) ==
    [p \in DOMAIN StagedAll(which) \cup DOMAIN last |->
        IF p \in DOMAIN last THEN last[p] ELSE StagedAll(which)[p]]

InitConflict ==
    /\ recipes = [n \in Names |-> Recipe({}, n, {})]
    /\ \E l \in {"split", "linked"}, files \in OwnedSets, before \in BOOLEAN :
          live = Place(Layout(l), StagedWith(IF before THEN <<MF("c", "2")>> ELSE <<>>,
                                             Owning(files)))
    /\ elevation = "root"
    /\ cfg = NoConfig
    /\ InitSession(1)

NextConflict ==
    \/ BuildSingle
    \/ ResolveReturn
    \/ Summary
    \/ Verify
    \/ BuildOne
    \/ InstallAll

SpecConflict == InitConflict /\ [][NextConflict]_vars
\* The resolver runs to completion once started: no step waits on anything.
SpecResolveLive == SpecResolve /\ WF_vars(NextResolve)

(***************************************************************************)
(* Properties of the resolver.                                             *)
(***************************************************************************)
Returned == result.status = "ok"
Ended == result.status \in {"ok", "circular", "unresolved"}
Seeds == {pack_toml[k] : k \in 1..Len(pack_toml)}

StoreEdges ==
    {[from |-> n, to |-> t, kind |-> k, key |-> EdgeMap(n, k)[t]] :
        <<n, k, t>> \in {x \in (DOMAIN recipes) \X {"deps", "mkdeps"} \X (Names \cup {NoRecipe}) :
                            x[3] \in DOMAIN EdgeMap(x[1], x[2])}}

RECURSIVE ReachFrom(_, _)
ReachFrom(S, E) ==
    LET T == S \cup {e.to : e \in {x \in E : x.from \in S}}
    IN IF T = S THEN S ELSE ReachFrom(T, E)

OnCycle(n, E) == n \in ReachFrom({e.to : e \in {x \in E : x.from = n}}, E)
CycleFrom(S, E) == \E n \in ReachFrom(S, E) : OnCycle(n, E)

\* The edges the traversal follows: those whose target no installed
\* manifest matching the edge's key satisfies.
FollowedEdges == {e \in StoreEdges : ~is_installed(live, e.to, e.key)}
\* The edges between packages that are not installed at any version.
FreeEdges ==
    {e \in StoreEdges : ~is_installed(live, e.from, "*") /\ ~is_installed(live, e.to, "*")}

MaxDepth(S) == CHOOSE d \in {r.depth : r \in S} : \A r \in S : r.depth <= d
RecordsOf(n) == {r \in recorded : r.name = n}
Sorted(list) == \A k \in 1..(Len(list) - 1) : list[k].depth >= list[k + 1].depth

\* C7 as stated: whenever the graph reachable from the seeds over all deps
\* and mkdeps edges holds a cycle of packages of which none is installed,
\* a finished resolve has failed with CircularDependency.
C7_AsStated ==
    (Ended /\ \E n \in ReachFrom(Seeds, StoreEdges) : OnCycle(n, FreeEdges))
        => result.status = "circular"

\* C7 (amended): resolve terminates; and if the edges the traversal follows
\* (those whose target is not satisfied by an installed manifest) lead
\* from the seeds to a cycle, a finished resolve has failed instead of
\* returning lists: with CircularDependency when none of the followed
\* edges reachable from the seeds names a package without a recipe.
C7_CycleFails ==
    (Ended /\ CycleFrom(Seeds, FollowedEdges)) =>
        /\ result.status # "ok"
        /\ NoRecipe \notin ReachFrom(Seeds, FollowedEdges) => result.status = "circular"
C7_Terminates == (result.status = "running") ~> Ended
C7_ResolveTerminatesAndCyclesFail == C7_Terminates /\ []C7_CycleFails

\* A run that failed with CircularDependency on a cycle through the seed
\* a, and one on a package that depends on itself.
C7_Witness ==
    /\ result.status = "circular"
    /\ OnCycle("a", FollowedEdges)
    /\ "b" \in ReachFrom({"a"}, FollowedEdges) /\ "a" \in ReachFrom({"b"}, FollowedEdges)

\* C8: the deps list and the mkdeps list that resolve returns share no
\* name, and a package recorded both through a deps edge and through an
\* mkdeps edge is in the mkdeps list only.
C8_DepsMkdepsDisjoint ==
    Returned =>
        /\ NamesOf(result.deps) \cap NamesOf(result.mkdeps) = {}
        /\ \A n \in Names :
              (\E r, q \in RecordsOf(n) : r.kind = "deps" /\ q.kind = "mkdeps") =>
                  n \in NamesOf(result.mkdeps) /\ n \notin NamesOf(result.deps)

C8_Witness ==
    /\ Returned
    /\ \E r, q \in RecordsOf("c") : r.kind = "deps" /\ ~r.mk /\ q.kind = "mkdeps"
    /\ result.deps # <<>>

C10_SortedByDepth == Returned => Sorted(result.deps) /\ Sorted(result.mkdeps)

\* A returned list of two depths.
C10_Witness ==
    /\ Returned
    /\ Len(result.deps) >= 2 /\ result.deps[1].depth > result.deps[Len(result.deps)].depth

(***************************************************************************)
(* Properties of the build pipeline, the installer and the remover.        *)
(***************************************************************************)
Scripts == {i \in 1..Len(hist) : hist[i].e = "script"}
Before(i, e, pack) == \E j \in 1..(i - 1) : hist[j] = Ev(e, pack)
\* The live tree the running command found, on which resolution ran.
AtStart == Last(session).live
\* The dependencies of pack, of either kind, that no manifest found at
\* the start satisfied.
Missing(pack) ==
    UNION {{t \in DOMAIN EdgeMap(pack, kind) :
                ~is_installed(AtStart, t, EdgeMap(pack, kind)[t])} :
           kind \in {"deps", "mkdeps"}}
JustDone(e) == hist # <<>> /\ Last(hist).e = e

WillBuild == Seeds \cup NamesOf(result.deps) \cup NamesOf(result.mkdeps)
C2_AsStated ==
    \A i \in Scripts : \A pack \in WillBuild :
        SumsOk(recipes[pack]) /\ Before(i, "verified", pack)

\* C3 as stated: a path of P's manifest that existed and was listed in the
\* installed manifest of another package when remove(P) came to it still
\* exists when remove(P) returns.
C3_AsStated ==
    JustDone("removed") => \A file \in shared : Exists(live, file)

\* C4 as stated: when an install_all call has completed in which the user
\* answered 'overwrite' at every prompt for a path of P tracked by Q, the
\* live manifest of Q lists none of these paths and that of P lists all.
\* The staging directory of pack is gone: install_all has placed its files.
Placed(pack) == pack \notin DOMAIN tmp
Asked(pack, other) ==
    {k \in 1..Len(prompts) : prompts[k].pack = pack /\ prompts[k].other = other}
Lists(fs, n, line) ==
    /\ Exists(fs, ArcDir \o <<n>>)
    /\ Contains(ManifestText(fs, ArcDir, n), line \o <<NL>>)
C4_AsStated ==
    JustDone("installed") =>
        \A pack \in Names : \A other \in ManifestsIn(live, ArcDir) :
            (/\ Placed(pack)
             /\ Asked(pack, other) # {}
             /\ \A k \in Asked(pack, other) : prompts[k].overwrite) =>
                \A k \in Asked(pack, other) :
                    /\ ~Lists(live, other, prompts[k].line)
                    /\ Lists(live, MF(pack, recipes[pack].version), prompts[k].line)

\* C5 as stated: when root has built and installed a package P without
\* dependencies on a system where nothing conflicts with it, and has
\* then run remove(P), the live tree is what it was before the build and
\* no installed manifest of P is left.
RoundTrip(pack) ==
    /\ Len(session) = 2
    /\ session[1].op = "build" /\ session[1].packs = <<pack>>
    /\ session[2].op = "remove" /\ session[2].packs = <<pack>>
    /\ session[2].prev = "ok"
    /\ DOMAIN recipes[pack].deps = {} /\ DOMAIN recipes[pack].mkdeps = {}
    /\ elevation = "root"
    /\ pc = "idle" /\ status \in {"ok", "failed", "panic"}
C5_AsStated ==
    \A pack \in Names :
        RoundTrip(pack) =>
            /\ live = session[1].live
            /\ ~is_installed(live, pack, "*")
            /\ MossVersions(live, pack) = {}

\* C6 as stated: once install has placed the manifest of P@V, is_installed
\* finds it, list and upgrade enumerate it, and remove locates it.
C6_AsStated ==
    (JustDone("installed") /\ Placed(Last(hist).pack)) =>
        LET pack == Last(hist).pack
            version == recipes[pack].version
        IN /\ is_installed(live, pack, version)
           /\ MF(pack, version) \in ListInstalled(live)
           /\ version \in MossVersions(live, pack)

(***************************************************************************)
(* Further properties of the resolver.                                     *)
(***************************************************************************)
Distinct(list) ==
    \A j, k \in 1..Len(list) : j # k => list[j].name # list[k].name

\* C11: in each list resolve returns when started at depth 1, every entry
\* has a depth of at least 1 and no two entries have the same name.
C11_DepthAndDistinctNames ==
    Returned =>
        /\ \A k \in 1..Len(result.deps) : result.deps[k].depth >= 1
        /\ \A k \in 1..Len(result.mkdeps) : result.mkdeps[k].depth >= 1
        /\ Distinct(result.deps) /\ Distinct(result.mkdeps)

\* A package recorded twice, at two depths, and returned once in a list
\* of two entries.
C11_Witness ==
    /\ Returned
    /\ Len(result.deps) = 2
    /\ \E r, q \in recorded :
          r.name = q.name /\ r.depth # q.depth /\ r.kind = "deps" /\ q.kind = "deps"
          /\ ~r.mk /\ ~q.mk

\* C12 as stated, its last part: resolution never fails on an edge whose
\* target an installed manifest matching the edge's key satisfies, so a
\* call that fails has met an edge whose target is not satisfied.
C12_AsStated ==
    [][(result.status = "running" /\ result'.status \in {"circular", "unresolved"}) =>
          \E name \in Top.todo :
              ~is_installed(live, name, EdgeMap(Top.packs[Top.i], Top.kind)[name])]_vars

(***************************************************************************)
(* Further properties of the build pipeline.                               *)
(***************************************************************************)
Installs == {i \in 1..Len(hist) : hist[i].e = "installed"}
DepNames == NamesOf(result.deps) \cup NamesOf(result.mkdeps)

\* C13 as stated: in a build run, when the build script of an explicit
\* package starts, every make dependency and every dependency has been
\* built and installed; and unless `yes` is set, the second prompt has
\* returned before an explicit package is installed.
C13_AsStated ==
    cmd.op = "build" =>
        /\ \A i \in Scripts : hist[i].pack \in Seeds =>
              \A d \in DepNames : Before(i, "script", d) /\ Before(i, "installed", d)
        /\ ~cmd.yes =>
              \A i \in Installs : hist[i].pack \in Seeds => Before(i, "prompted", "")

\* The events of the last two calls of build, build_all(&pack_toml) and
\* install_all(&pack_toml): those of an explicit package that is in no
\* dependency list, and the second ones of an explicit package that is.
OfExplicitCall(i) ==
    /\ hist[i].pack \in Seeds
    /\ hist[i].pack \in DepNames => Before(i, hist[i].e, hist[i].pack)

\* C13 (amended): in a build run, the call that builds the explicit list
\* starts only after every make dependency and every dependency has been
\* built and installed, and unless `yes` is set the call that installs the
\* explicit list starts only after the second prompt has returned.  (An
\* explicit package that is also in a dependency list is built and
\* installed with its layer as well, before the prompt.)
C13_ExplicitListLast ==
    cmd.op = "build" =>
        /\ \A i \in Scripts : OfExplicitCall(i) =>
              \A d \in DepNames : Before(i, "script", d) /\ Before(i, "installed", d)
        /\ ~cmd.yes =>
              \A i \in Installs : OfExplicitCall(i) => Before(i, "prompted", "")

\* A run without `yes` that has installed its explicit package after a
\* make dependency and a dependency were built and installed.
C13_Witness ==
    /\ cmd.op = "build" /\ ~cmd.yes
    /\ result.deps # <<>> /\ result.mkdeps # <<>>
    /\ \E i \in Installs : OfExplicitCall(i) /\ hist[i].pack \notin DepNames

DepthIn(list, n) == list[CHOOSE k \in 1..Len(list) : list[k].name = n].depth
\* The groups into which build splits list: they partition it in order,
\* each holds the packages of one depth, and the depths descend.
GroupedByDepth(list) ==
    list # <<>> =>
        LET groups == Layers(list) IN
        /\ Flatten(groups) = NameSeq(list)
        /\ \A g \in 1..Len(groups) :
              /\ groups[g] # <<>>
              /\ \A j, k \in 1..Len(groups[g]) :
                    DepthIn(list, groups[g][j]) = DepthIn(list, groups[g][k])
        /\ \A g, h \in 1..Len(groups) :
              g < h => DepthIn(list, groups[g][1]) > DepthIn(list, groups[h][1])
\* Every entry of list is built and installed before the script of an
\* entry of a smaller depth starts.
DeeperFirst(list) ==
    \A j, k \in 1..Len(list) :
        list[j].depth > list[k].depth =>
            \A i \in Scripts : hist[i].pack = list[k].name =>
                /\ Before(i, "script", list[j].name)
                /\ Before(i, "installed", list[j].name)

\* C14: in a build run, the make-dependency list and then the dependency
\* list are processed in groups of equal depth in descending depth order:
\* the groups partition each list, every package of a group is built and
\* installed before any package of a smaller depth is built, and every
\* make dependency is installed before any dependency is built.
C14_LayersInDescendingDepth ==
    (cmd.op = "build" /\ Returned) =>
        /\ GroupedByDepth(result.mkdeps) /\ GroupedByDepth(result.deps)
        /\ DeeperFirst(result.mkdeps) /\ DeeperFirst(result.deps)
        /\ \A i \in Scripts : hist[i].pack \in NamesOf(result.deps) =>
              \A m \in NamesOf(result.mkdeps) : Before(i, "installed", m)

\* A run that has built a dependency of depth 1 after a dependency of
\* depth 2 was built and installed.
C14_Witness ==
    /\ cmd.op = "build" /\ Returned
    /\ \E j, k \in 1..Len(result.deps) :
          /\ result.deps[j].depth > result.deps[k].depth
          /\ \E i \in Scripts : hist[i].pack = result.deps[k].name

\* The tarball of pack in <cache>/bin is none this run has made.
NotRebuilt(pack) ==
    LET t == MF(pack, recipes[pack].version) IN
    IF t \in DOMAIN Last(session).bin
    THEN t \in DOMAIN bin /\ bin[t] = Last(session).bin[t]
    ELSE t \notin DOMAIN bin

\* C15 as stated: when the build script of P has failed, the build run has
\* ended with BuildFailed at that script, the run has made no tarball
\* (and so no manifest) of P, and it has installed nothing of P.
C15_AsStated ==
    status = "build_failed" =>
        /\ pc = "idle" /\ JustDone("script")
        /\ NotRebuilt(Last(hist).pack)
        /\ \A i \in Installs : hist[i].pack # Last(hist).pack

(***************************************************************************)
(* Properties of the builder and of the installer.                         *)
(***************************************************************************)
\* build_all has returned Ok for the package whose script ran last.
Built == JustDone("script") /\ status # "build_failed"
IsFile(tree, p) == p \in DOMAIN tree /\ tree[p].kind = "file"

BuiltTree == bin[MF(Last(hist).pack, recipes[Last(hist).pack].version)]
BuiltManifest ==
    BuiltTree[ManifestPath(Last(hist).pack, recipes[Last(hist).pack].version)].data
LineSet(content) == {Lines(content)[k] : k \in 1..Len(Lines(content))}
\* Every line ends with a newline and no line is repeated.
WellFormed(content) ==
    /\ TextOf(Lines(content)) = content
    /\ Cardinality(LineSet(content)) = Len(Lines(content))

InstallCall == pc = "steps" /\ plan # <<>> /\ Head(plan).k = "install"
InstallOneCall == InstallCall /\ Len(Head(plan).packs) = 1

\* C18 as stated, for a call install_all([P]): when the user declines to
\* overwrite a conflicting path L, L leaves the staging directory of P
\* and the staged manifest of P; and once the call has placed P, the live
\* file L is what it was, the installed manifest of the other package
\* still lists L and the installed manifest of P does not.
C18_AsStated ==
    [][InstallOneCall =>
          \A k \in 1..Len(prompts') : ~prompts'[k].overwrite =>
              LET pack == prompts'[k].pack
                  line == prompts'[k].line
                  manifest == ManifestPath(pack, recipes[pack].version)
              IN /\ (status' # "failed" /\ pack \in DOMAIN tmp') =>
                        /\ line \notin DOMAIN tmp'[pack]
                        /\ manifest \in DOMAIN tmp'[pack]
                        /\ ~Contains(tmp'[pack][manifest].data, line \o <<NL>>)
                 /\ (Len(hist') > Len(hist) /\ pack \notin DOMAIN tmp') =>
                        /\ Exists(live', line) /\ Node(live', line) = Node(live, line)
                        /\ Lists(live', prompts'[k].other, line)
                        /\ ~Lists(live', MF(pack, recipes[pack].version), line)]_vars

\* C19 as stated: whenever install reports success for package P at
\* version V, the installed manifest P@V exists and every path it lists
\* that no other installed manifest lists exists on the live filesystem.
ClaimedByOther(fs, pack, line) ==
    \E n \in Names \X Versions :
        n[1] # pack /\ Lists(fs, MF(n[1], n[2]), line)

C19_AsStated ==
    JustDone("installed") =>
        LET pack == Last(hist).pack
            manifest == ManifestPath(pack, recipes[pack].version)
        IN /\ Exists(live, manifest)
           /\ \A line \in LineSet(Node(live, manifest).data) :
                 ~ClaimedByOther(live, pack, line) => Exists(live, line)

\* install_all is called by a user who is not root and has no command to
\* become root.
NoElevationCall == InstallCall /\ elevation = "none"

\* Every package of the call has its tarball under <cache>/bin.
HasTarball(pack) == MF(pack, recipes[pack].version) \in DOMAIN bin
AllBuilt == \A k \in 1..Len(Head(plan).packs) : HasTarball(Head(plan).packs[k])

RemoveCall == pc = "steps" /\ plan # <<>> /\ Head(plan).k = "remove"
Removing == Head(plan).packs[1]
RemoveCallOk == RemoveCall /\ plan' = Tail(plan)

\* The manifest remove reads for pack.
RemovedManifest(fs, pack) ==
    Node(fs, MossDir \o <<MF(pack, FirstVersion(MossVersions(fs, pack)))>>).data

\* C21 as stated (first half): after remove(P) has returned for an
\* installed package P that is not a provides-stub, every path of P's
\* manifest that was a regular file or a symbolic link and is listed in no
\* other package's installed manifest no longer exists.
C21_AsStated ==
    [][RemoveCallOk =>
          \A line \in LineSet(RemovedManifest(live, Removing)) :
              (/\ Exists(live, line)
               /\ Node(live, line).kind \in {"file", "link"}
               /\ ~ClaimedByOther(live, Removing, line)) => ~Exists(live', line)]_vars

\* The installed manifest remove finds for pack is a provides-stub.
IsStub(fs, pack) ==
    /\ is_installed(fs, pack, "*")
    /\ MossVersions(fs, pack) # {}
    /\ StartsWith(RemovedManifest(fs, pack), <<Arrow>>)

\* The installed manifest of N names another package after '->'.
HasStubManifest(fs, pack) ==
    \E v \in Versions :
        /\ Exists(fs, ArcDir \o <<MF(pack, v)>>)
        /\ Node(fs, ArcDir \o <<MF(pack, v)>>).kind = "file"
        /\ StartsWith(Node(fs, ArcDir \o <<MF(pack, v)>>).data, <<Arrow>>)

\* C22 as stated: remove(N) for a name N whose installed manifest begins
\* with '-> P@V' fails with the error that names P, and deletes nothing.
C22_AsStated ==
    [][(RemoveCall /\ HasStubManifest(live, Removing)) =>
          /\ status' = "failed"
          /\ live' = live]_vars

\* Root has built and installed pack, which declares provides entries,
\* and has then run remove(pack).
ProvidesRoundTrip(pack) ==
    /\ Len(session) = 2
    /\ session[1].op = "build" /\ session[1].packs = <<pack>>
    /\ session[2].op = "remove" /\ session[2].packs = <<pack>>
    /\ session[2].prev = "ok"
    /\ DOMAIN recipes[pack].provides # {}
    /\ elevation = "root"
    /\ pc = "idle" /\ status \in {"ok", "failed", "panic"}

\* No manifest of pack and no stub of its aliases is left.
ManifestsGone(fs, pack) ==
    /\ ~is_installed(fs, pack, "*")
    /\ MossVersions(fs, pack) = {}
    /\ \A alias \in DOMAIN recipes[pack].provides :
          /\ ~is_installed(fs, alias, "*")
          /\ ~Exists(fs, MossDir \o <<MF(alias, recipes[pack].provides[alias])>>)

\* C23 as stated: for a package P that declares provides entries and has
\* been built and installed, remove(P) succeeds, and afterwards neither
\* the manifest of P nor a stub of its aliases is in the installed-manifest
\* directory.
C23_AsStated ==
    \A pack \in Names :
        ProvidesRoundTrip(pack) => (status = "ok" /\ ManifestsGone(live, pack))

(***************************************************************************)
(* Claims about download_one and verify_checksums.                         *)
(***************************************************************************)
GitEntries == {k \in 1..Len(call.urls) : StartsWith(call.urls[k], GitPlus)}

\* C24 as stated: a fetch whose source list holds an entry that starts
\* with 'git+' fails at that entry: it does not return the list of local
\* paths, it sends no request for the entry, and it produces no local
\* path marked 'tar+' for it.
C24_AsStated ==
    \A k \in GitEntries :
        /\ call.at # "done"
        /\ (call.idx = k) => call.at # "request"
        /\ Len(call.fnames) >= k => ~StartsWith(call.fnames[k], TarPlus)

\* The entries that start with none of 'tar+', 'git+', 'http://', 'https://'.
LocalEntries ==
    {k \in 1..Len(call.urls) :
        /\ ~StartsWith(call.urls[k], TarPlus)
        /\ ~StartsWith(call.urls[k], GitPlus)
        /\ ~StartsWith(call.urls[k], HttpScheme)
        /\ ~StartsWith(call.urls[k], HttpsScheme)}

\* C25 as stated: for a source that starts with none of the four
\* prefixes, whatever its length and characters, fetch does not die at
\* it, the local path it produces is the cache path of the last segment
\* without a 'tar+' marker, and a forced fetch has copied the file of the
\* recipe directory there.
C25_AsStated ==
    \A k \in LocalEntries :
        LET source == call.urls[k]
        IN /\ ~(call.at = "panic" /\ call.idx = k)
           /\ Len(call.fnames) >= k => call.fnames[k] = DlDir \o LastSegment(source)
           /\ (call.idx = k + 1 /\ call.force /\ source \in RepoFiles) =>
                 /\ LastSegment(source) \in DOMAIN dl_dir
                 /\ dl_dir[LastSegment(source)] = Copied(source)

\* verify_checksums has run on the paths a fetch returned.
Verified == call.at = "done" /\ verdict.result # "none"
Matches(k) ==
    /\ Readable(dl_dir, call.fnames[k])
    /\ Hash(Read(dl_dir, call.fnames[k])) = verdict.checksums[k]

\* C26: verify fails when the package has fewer checksums than fetched
\* sources; when it has as many or more, it succeeds exactly when the
\* first N checksums are the hashes of the N sources, position by
\* position, whatever the checksums after them are.
C26_ExcessChecksumsIgnored ==
    Verified =>
        IF Len(verdict.checksums) < Len(call.fnames)
        THEN verdict.result = "missing"
        ELSE verdict.result = "ok" <=> \A k \in 1..Len(call.fnames) : Matches(k)

\* Two fetched sources verified against three checksums: the first two
\* are the hashes of the sources, the third is not the hash of anything
\* fetched, and verify succeeds.
C26_Witness ==
    /\ Verified
    /\ Len(call.fnames) = 2
    /\ Len(verdict.checksums) = 3
    /\ verdict.checksums[3] = Wrong
    /\ verdict.result = "ok"

\* Entries j < k of one fetch are distinct urls with the same final
\* segment, both served with 200; the fetch has downloaded the earlier
\* one, and k is the last entry of that name.
Collide(j, k) ==
    /\ j < k
    /\ Req("get", Stripped(call.urls[j])) \in traffic
    /\ call.urls[j] # call.urls[k]
    /\ LastSegment(call.urls[j]) = LastSegment(call.urls[k])
    /\ \A m \in {j, k} : /\ ~SlicePanics(call.urls[m])
                         /\ Stripped(call.urls[m]) \in DOMAIN net
                         /\ net[Stripped(call.urls[m])] = Ok200
    /\ \A m \in (k + 1)..Len(call.urls) :
          LastSegment(call.urls[m]) # LastSegment(call.urls[k])

\* C27 as stated: when one fetch has processed two distinct urls whose
\* final segment is the same, both have resolved to the same cache file
\* and that file holds the content of the later url, whether the fetch
\* was forced or not.
C27_AsStated ==
    call.at = "done" =>
        \A j, k \in 1..Len(call.urls) :
            Collide(j, k) =>
                /\ CachePath(call.fnames[j]) = CachePath(call.fnames[k])
                /\ Readable(dl_dir, call.fnames[k])
                /\ Read(dl_dir, call.fnames[k]) = Got(Stripped(call.urls[k]))

\* C27: when one fetch has processed two distinct urls whose final
\* segment is the same, both have resolved to the same cache file; after
\* a forced fetch the file holds the content of the later url, and after
\* an unforced fetch that downloaded the earlier url the later one was
\* skipped and the file holds the content of the earlier url.
C27_LaterUrlWinsOnlyWhenForced ==
    call.at = "done" =>
        \A j, k \in 1..Len(call.urls) :
            Collide(j, k) =>
                /\ CachePath(call.fnames[j]) = CachePath(call.fnames[k])
                /\ Readable(dl_dir, call.fnames[k])
                /\ Read(dl_dir, call.fnames[k]) =
                      IF call.force THEN Got(Stripped(call.urls[k]))
                      ELSE Got(Stripped(call.urls[j]))
                /\ ~call.force => Req("get", Stripped(call.urls[k])) \notin traffic

\* An unforced fetch of two colliding urls has returned with the file of
\* the earlier url in the cache.
C27_Witness ==
    /\ call.at = "done"
    /\ ~call.force
    /\ \E j, k \in 1..Len(call.urls) :
          Collide(j, k) /\ Read(dl_dir, call.fnames[k]) = Got(Stripped(call.urls[j]))

\* The call that ended last before the current one.
Previous == past[Len(past)]

\* The current call is a second unforced fetch of the list of which the
\* call before it was an unforced fetch that succeeded.
Refetch ==
    /\ past # <<>>
    /\ Previous.at = "done"
    /\ ~Previous.force
    /\ ~call.force
    /\ call.urls = Previous.urls

\* C28: after an unforced fetch has succeeded for a source list, a
\* second unforced fetch of the same list sends no request and makes no
\* copy, leaves every cache file as it was, does not fail, and returns the
\* same local paths in the same order, 'tar+' markers included.
C28_RefetchIsQuiet ==
    Refetch =>
        /\ traffic = {}
        /\ dl_dir = Previous.dl_dir
        /\ call.at \in {"loop", "done"}
        /\ call.at = "done" => call.fnames = Previous.fnames

\* A second unforced fetch of a list with a remote url, a 'tar+' url or
\* a local file has returned.
C28_Witness ==
    /\ Refetch
    /\ call.at = "done"
    /\ Previous.traffic # {}
    /\ \E k \in 1..Len(call.fnames) : StartsWith(call.fnames[k], TarPlus)

\* C29 as stated: the download of an HTTP(S) source follows a bounded
\* number of redirects, so a fetch that has come to request a url ends,
\* with the file or with a failure, whatever the servers answer.
C29_AsStated == (call.at = "request") ~> CallEnded(call)

(***************************************************************************)
(* The upgrade scan.                                                       *)
(***************************************************************************)
UpgradeCall == Len(session') = Len(session) + 1 /\ cmd'.op = "upgrade"
WorkList == session'[Len(session')].packs
InstalledVersions(fs, pack) == {v \in Versions : Exists(fs, ManifestPath(pack, v))}
Outdated(fs, pack) ==
    /\ InstalledVersions(fs, pack) # {}
    /\ pack \in DOMAIN recipes
    /\ recipes[pack].version \notin InstalledVersions(fs, pack)

\* C30: upgrade puts a name on its work list exactly when the name has an
\* installed manifest, its recipe resolves and the version of the recipe
\* is not the installed one; an installed name without a recipe is passed
\* over and the upgrade goes on.
C30_AsStated ==
    [][UpgradeCall =>
          /\ \A pack \in Names \cup {NoRecipe} :
                (\E k \in 1..Len(WorkList) : WorkList[k] = pack) <=> Outdated(live, pack)
          /\ status' # "failed"]_vars

(***************************************************************************)
(* The verbose build step.                                                 *)
(***************************************************************************)
Project(bytes, s) == SelectSeq(bytes, LAMBDA b : b[1] = s)
IsPrefixOf(p, q) == Len(p) <= Len(q) /\ SubSeq(q, 1, Len(p)) = p
BetweenChunks(s) == threads[s].at \in {"read", "done"}

\* C31: the thread of a stream has written every chunk it read to log.txt
\* and to standard output when it reads the next one, and in both sinks
\* the bytes of one stream are in the order the script wrote them.
C31_StreamOrderKept ==
    \A s \in Streams :
        /\ IsPrefixOf(Project(log_file.data, s), child.wrote[s])
        /\ IsPrefixOf(Project(stdout, s), child.wrote[s])
        /\ BetweenChunks(s) =>
              /\ Project(log_file.data, s) = threads[s].got
              /\ Project(stdout, s) = threads[s].got

\* The script wrote MaxBytes bytes to each stream, and the two sinks hold
\* the streams in different orders.
C31_Witness ==
    /\ step.at = "returned"
    /\ \A s \in Streams : Len(child.wrote[s]) = MaxBytes
    /\ Len(log_file.data) = 2 * MaxBytes /\ Len(stdout) = 2 * MaxBytes
    /\ log_file.data[1][1] = "err" /\ stdout[1][1] = "out"

Exits == {"returned", "panic"}

\* C32: both writer threads are joined before the child is waited on, and
\* on every way out of the step (the script succeeded, it failed, a tee
\* error in one of the threads) the child was waited on and the step
\* returned success or a build failure.
C32_AsStated ==
    /\ step.at \in {"wait", "returned"} => \A s \in Streams : threads[s].at = "done"
    /\ step.at \in Exits => child.state = "reaped" /\ step.outcome \in {"built", "failed"}

\* C40: when the verbose build step returns, log.txt holds every byte the
\* script wrote to its standard output and to its standard error, each
\* exactly once: the two threads, writing through clones of one file,
\* lose, repeat or overwrite nothing.
C40_LogHoldsEveryByteOnce ==
    step.at = "returned" =>
        /\ \A s \in Streams : Project(log_file.data, s) = child.wrote[s]
        /\ Len(log_file.data) = Len(child.wrote["out"]) + Len(child.wrote["err"])

\* The step returned after the threads wrote the bytes of both streams
\* in turns.
C40_Witness ==
    /\ step.at = "returned"
    /\ \A s \in Streams : Len(child.wrote[s]) = MaxBytes
    /\ \E k \in 1..(Len(log_file.data) - 2) :
          /\ log_file.data[k][1] # log_file.data[k + 1][1]
          /\ log_file.data[k + 1][1] # log_file.data[k + 2][1]

(***************************************************************************)
(* What the steps of a build write.                                        *)
(***************************************************************************)
CommandStart == Len(session') = Len(session) + 1
BuilderStep == pc = "steps" /\ plan # <<>> /\ Head(plan).k = "build"
BeforeInstall == pc \in {"summary", "verify"} \/ BuilderStep

ConfiguredCall == InstallCall /\ elevation # "root" /\ cfg.su_cmd # Unset

\* C35: when the user is not root and su_cmd is set, install_all runs its
\* commands through su_cmd, whatever it names, and does not fail for want
\* of a command to become root.
C35_AsStated == [][ConfiguredCall => status' # "no_elevation"]_vars

\* The tarball of pack holds a stripped binary.
WasStripped(pack) ==
    \E p \in DOMAIN bin[MF(pack, recipes[pack].version)] :
        LET node == bin[MF(pack, recipes[pack].version)][p]
        IN node.kind = "file" /\ node.data # <<>> /\ node.data[1][1] = "stripped"

\* C34: the strip step runs for a package exactly when strip is on in the
\* configuration and the recipe does not switch it off; under no other
\* combination of the two settings is the package stripped.
C34_AsStated ==
    \A pack \in Names :
        HasTarball(pack) =>
            (WasStripped(pack) <=> (cfg.strip /\ recipes[pack].strip # "false"))

(***************************************************************************)
(* The scratch directories of the builder.                                 *)
(***************************************************************************)
Building == Head(plan).packs[1]

\* C36: when the build of a package starts, <cache>/build/<name> holds
\* nothing of an earlier build of it, also when that build was aborted.
C36_AsStated == BuilderStep => Building \notin DOMAIN scratch

(***************************************************************************)
(* Manifests of one name.                                                  *)
(***************************************************************************)
OnePerName(fs) == \A pack \in Names : Cardinality(InstalledVersions(fs, pack)) <= 1
InstalledNow == status = "ok" /\ \E k \in 1..Len(hist) : hist[k].e = "installed"

\* C37: after installs that succeeded, also of a new version of a package
\* that is installed (as upgrade does), the installed manifests hold at
\* most one manifest for a package name.
C37_AsStated ==
    (InstalledNow /\ OnePerName(session[Len(session)].live)) => OnePerName(live)

(***************************************************************************)
(* The conflict check of install_all.                                      *)
(***************************************************************************)
Installing == Head(plan).packs[1]
\* The lines of the manifest install_all reads at line 627.
ManifestLines ==
    Lines(bin[MF(Installing, recipes[Installing].version)]
             [ManifestPath(Installing, recipes[Installing].version)].data)
LinesOf(Q) == Lines(ManifestText(live, ArcDir, Q))
Except(lines, L) == LET Other(l) == l # L IN SelectSeq(lines, Other)

\* C38: is_tracked(L) reports Q only if L is a whole line of the installed
\* manifest of Q, and the manifest of Q without L (lines 639, 651) has
\* every other line of it unchanged.
C38_AsStated ==
    (InstallCall /\ ~TrackedErr(live)) =>
        \A k \in 1..Len(ManifestLines) :
            LET L == ManifestLines[k]
            IN \A Q \in Tracked(live, L) :
                  /\ \E j \in 1..Len(LinesOf(Q)) : LinesOf(Q)[j] = L
                  /\ Lines(Replace(ManifestText(live, ArcDir, Q), L \o <<NL>>))
                        = Except(LinesOf(Q), L)

(***************************************************************************)
(* One build run.                                                          *)
(***************************************************************************)
Times(e, pack) == Cardinality({k \in 1..Len(hist) : hist[k] = Ev(e, pack)})

\* C39: in one build run every package is built at most once and
\* installed at most once, also when an explicit package is a dependency
\* or make dependency of another explicit package.
C39_AsStated ==
    cmd.op = "build" =>
        \A pack \in Names : Times("script", pack) <= 1 /\ Times("installed", pack) <= 1
====
